---- MODULE Spec2Model ----
(***************************************************************************)
(* Optimistic mutation and cache-consistency protocol of the claims app.   *)
(*                                                                         *)
(* Client side: the React Query cache (query keys ['claims'],              *)
(* ['claims', id], ['shareLink', id]), background fetches of those keys    *)
(* and the mutations of lib/hooks/useClaims.ts and useShareLinks.ts, each  *)
(* split at its await points.  Server side: the Prisma tables Claim and    *)
(* ShareLink and the route handlers that read and write them, each split   *)
(* at its awaited Prisma calls.                                            *)
(***************************************************************************)
EXTENDS Integers, Sequences, FiniteSets, TLC

\* ------------------------------------------------------------------------
\* Bounds
\* ------------------------------------------------------------------------
MaxMut == 2
MaxClock == 1
MaxReq == 3

\* ------------------------------------------------------------------------
\* Values
\* ------------------------------------------------------------------------
\* JavaScript undefined and null inside a claim's fields and inputs
Undef == "undefined"
Null == "null"

\* a query key with no data (getQueryData returns undefined)
Absent == [t |-> "undefined"]
\* the share-link query's "no link" value
NoLink == [t |-> "null"]
\* a table without a row for the key
NoRow == [t |-> "norow"]
NoFetch == [t |-> "idle"]
FetchError == [t |-> "error"]

\* claims that exist when the session starts, and the identifiers the
\* server hands out to claims created later
InitialIds == {"c1", "c2"}
ServerIds == {"c1", "c2", "c3"}
\* the claim whose detail page the session opens and edits, and the claims
\* whose share button it uses
ViewIds == {"c1"}
ShareIds == {"c1", "c2"}

ListKey == <<"claims">>
DetailKey(id) == <<"claims", id>>
ShareKey(id) == <<"shareLink", id>>
\* the items of the claim on the detail page
ItemsKey == <<"items">>
Keys ==
    {ListKey, ItemsKey} \cup {DetailKey(id) : id \in ViewIds} \cup {ShareKey(id) : id \in ShareIds}

MkClaim(id, claimNumber, customer, status, claimantId) ==
    [t |-> "claim", id |-> id, claimNumber |-> claimNumber, customer |-> customer,
     status |-> status, claimantId |-> claimantId]

MkList(items) == [t |-> "list", items |-> items]

InitialRow(id) ==
    IF id = "c1" THEN MkClaim("c1", "N1", "acme", "PENDING", "u1")
    ELSE MkClaim(id, "N2", Null, "PENDING", "u1")

\* JavaScript truthiness of a snapshot kept in a mutation context
Truthy(v) == v # Absent /\ v # NoLink

\* a ?? b
Coalesce(a, b) == IF a = Undef \/ a = Null THEN b ELSE a

\* a || null on an optional string
OrNull(a) == IF a = Undef \/ a = Null \/ a = "" THEN Null ELSE a

IdsOf(list) == IF list.t = "list" THEN {list.items[i].id : i \in 1..Len(list.items)} ELSE {}

\* ------------------------------------------------------------------------
\* Inputs
\* ------------------------------------------------------------------------
UpdateInputs ==
    {[claimNumber |-> Undef, customer |-> "beta", status |-> Undef],
     [claimNumber |-> Undef, customer |-> Null, status |-> "APPROVED"]}

\* What the fetch of a mutation function comes back with.  status 0 is a
\* rejected fetch (network failure: the request or the response was lost),
\* body is whether response.json() can parse it, applied is whether the
\* handler ran to its write.
MkResponse(status, body, applied) == [status |-> status, body |-> body, applied |-> applied]
Responses ==
    {MkResponse(0, "none", FALSE), MkResponse(0, "none", TRUE),
     MkResponse(500, "json", FALSE), MkResponse(500, "malformed", FALSE),
     MkResponse(200, "json", TRUE), MkResponse(200, "malformed", TRUE)}

\* response.ok
Ok(r) == r.status >= 200 /\ r.status <= 299

\* whether the promise of the mutation function resolves
Resolves(kind, r) ==
    /\ r.status # 0
    /\ Ok(r)
    \* these mutation functions end in `return response.json()`; the others
    \* return after the status check
    /\ kind \in {"create", "update", "shareCreate"} => r.body = "json"

\* ------------------------------------------------------------------------
\* State
\* ------------------------------------------------------------------------
\* a field of type string | null: its characters, or null
Str(chars) == [t |-> "string", chars |-> chars]
NullStr == [t |-> "null"]

\* a storage key or a file name: its ending, when it is one of those the
\* migration script looks for or produces, and what precedes it
MkName(stem, ext) == [stem |-> stem, ext |-> ext]

\* the migration script before it runs
IdleMig ==
    [pc |-> "idle", DRY_RUN |-> FALSE, attachments |-> <<>>, i |-> 0, jpegKey |-> MkName("", ""),
     newThumbnailUrl |-> NullStr, result |-> [converted |-> 0, skipped |-> 0, failed |-> 0]]

VARIABLES
    cache,      \* query key -> cached data, or Absent
    fetching,   \* query key -> the response of the fetch in flight, or NoFetch
    muts,       \* mutation slot -> variables, context and position
    now,        \* the latest reading of Date.now()
    dbClaims,   \* table Claim: id -> row, or NoRow
    dbLinks,    \* table ShareLink: set of rows
    dbItems,    \* table Item: set of rows
    dbAttachments,      \* table Attachment: set of rows
    nextToken,  \* tokens handed out so far
    reqs,       \* server requests in progress: position and locals
    queryError, \* query key -> whether the last settled fetch of the key failed
    searchQuery,        \* claims page: the text of the search input
    debouncedSearch,    \* claims page: the text the filter is computed from
    selectedStatuses,   \* claims page: the statuses ticked in the filter
    bucket,     \* R2 bucket: set of stored objects
    rows,       \* migration script: the Attachment rows it runs against
    mig,        \* migration script: position and locals
    dialog      \* confirmation dialogs: instance -> open, step, inputValue

vars ==
    <<cache, fetching, muts, now, dbClaims, dbLinks, dbItems, dbAttachments, nextToken, reqs,
      queryError, searchQuery, debouncedSearch, selectedStatuses, bucket, rows, mig, dialog>>
pageVars == <<searchQuery, debouncedSearch, selectedStatuses>>
clientVars == <<cache, fetching, muts, now, queryError, pageVars>>
itemVars == <<dbItems, dbAttachments>>
sideVars == <<bucket, rows, mig, dialog>>
dbVars == <<dbClaims, dbLinks, nextToken, itemVars>>

MutIds == 1..MaxMut
ReqIds == 1..MaxReq

\* seq is bookkeeping for the properties: the position of the mutation in the
\* order in which the mutations left onMutate (0 before that)
IdleMut ==
    [kind |-> "none", pc |-> "idle", id |-> "-", data |-> [claimNumber |-> Undef, customer |-> Undef, status |-> Undef], temp |-> "-",
     prevList |-> Absent, prevItem |-> Absent, resp |-> Absent, seq |-> 0,
     toast |-> "none"]

IdleReq ==
    [kind |-> "none", pc |-> "idle", id |-> "-", item |-> "-", status |-> 0, token |-> 0]

\* ------------------------------------------------------------------------
\* Tables
\* ------------------------------------------------------------------------
MkLink(token, claimId) == [t |-> "link", token |-> token, claimId |-> claimId]

LinksOf(links, claimId) == {l \in links : l.claimId = claimId}

\* prisma.shareLink.findUnique({ where: { claimId } })
FindLink(links, claimId) ==
    IF LinksOf(links, claimId) = {} THEN NoLink
    ELSE CHOOSE l \in LinksOf(links, claimId) : TRUE

\* the insert without the unique index on claimId
CanInsertLinkNoUnique(claims, links, claimId) ==
    /\ claimId \in DOMAIN claims
    /\ claims[claimId] # NoRow

\* unique index ShareLink_claimId_key and foreign key ShareLink_claimId_fkey
CanInsertLink(claims, links, claimId) ==
    /\ claimId \in DOMAIN claims
    /\ claims[claimId] # NoRow
    /\ LinksOf(links, claimId) = {}

\* a cascade that is not restricted to the deleted claim
CascadeLinksAll(links, claimId) == {}

\* ON DELETE CASCADE of ShareLink_claimId_fkey
CascadeLinks(links, claimId) == links \ LinksOf(links, claimId)

MkItemRow(id, claimId) == [t |-> "item", id |-> id, claimId |-> claimId]

\* a cascade that stops at the claim's own row
CascadeItemsNone(items, claimId) == items

\* ON DELETE CASCADE of Item_claimId_fkey
CascadeItems(items, claimId) == {i \in items : i.claimId # claimId}

\* ON DELETE CASCADE of Attachment_itemId_fkey: the attachments of the items
\* that are left
CascadeAttachments(attachments, items) ==
    {a \in attachments : \E i \in items : i.id = a.itemId}

\* PATCH /api/claims/[id]: updateData holds the fields that are not undefined
PatchRow(row, data) ==
    [row EXCEPT !.claimNumber = IF data.claimNumber # Undef THEN data.claimNumber ELSE @,
                !.customer = IF data.customer # Undef THEN data.customer ELSE @,
                !.status = IF data.status # Undef THEN data.status ELSE @]

\* POST /api/claims
CreateRow(id, data) == MkClaim(id, data.claimNumber, OrNull(data.customer), "PENDING", "u1")

\* what the GET handler of a key answers when its Prisma calls succeed, and
\* what its catch block answers when one throws
MkGetResponse(status, data) == [status |-> status, data |-> data]
GetResponse(key, claims, links) ==
    IF key = ListKey
    THEN \* GET /api/claims: the rows of the table, newest first
         LET IdOrder == <<"c3", "c2", "c1">>
             present(i) == claims[IdOrder[i]] # NoRow
             RECURSIVE build(_)
             build(i) == IF i > Len(IdOrder) THEN <<>>
                         ELSE (IF present(i) THEN <<claims[IdOrder[i]]>> ELSE <<>>)
                              \o build(i + 1)
         IN MkGetResponse(200, MkList(build(1)))
    ELSE IF key[1] = "claims"
         THEN (IF claims[key[2]] = NoRow THEN MkGetResponse(404, Absent)
               ELSE MkGetResponse(200, claims[key[2]]))
         ELSE (IF FindLink(links, key[2]) = NoLink THEN MkGetResponse(404, Absent)
               ELSE MkGetResponse(200, FindLink(links, key[2])))

\* a query function that throws on every status that is not 2xx
QueryFnThrowsOn404(key, response) ==
    IF ~Ok(response) THEN FetchError ELSE response.data

\* the query functions: useShareLink returns null on 404; all of them throw
\* when the response is not ok
QueryFn(key, response) ==
    IF key[1] = "shareLink" /\ response.status = 404 THEN NoLink
    ELSE IF ~Ok(response) THEN FetchError
    ELSE response.data

\* ------------------------------------------------------------------------
\* Cache transforms of the mutations
\* ------------------------------------------------------------------------

\* the placeholder at the end of the list
CreateSpeculateAppend(old, tempClaim) ==
    MkList((IF old = Absent THEN <<>> ELSE old.items) \o <<tempClaim>>)

\* useCreateClaim.onMutate: [tempClaim, ...(old || [])]
CreateSpeculate(old, tempClaim) ==
    MkList(<<tempClaim>> \o (IF old = Absent THEN <<>> ELSE old.items))

\* useCreateClaim.onSuccess
CreateCommit(old, newClaim, tempId) ==
    IF old = Absent THEN MkList(<<newClaim>>)
    ELSE LET swap(c) == IF c.id = tempId THEN newClaim ELSE c
         IN MkList([i \in 1..Len(old.items) |-> swap(old.items[i])])

\* the patch without the fallback to the cached value
UpdateSpeculateOverwrite(old, data) ==
    IF old = Absent THEN old
    ELSE [old EXCEPT !.claimNumber = data.claimNumber,
                     !.customer = data.customer,
                     !.status = data.status]

\* useUpdateClaim.onMutate
UpdateSpeculate(old, data) ==
    IF old = Absent THEN old
    ELSE [old EXCEPT !.claimNumber = Coalesce(data.claimNumber, @),
                     !.customer = Coalesce(data.customer, @),
                     !.status = Coalesce(data.status, @)]

\* useUpdateClaim.onSuccess
UpdateCommitList(old, updatedClaim) ==
    IF old = Absent THEN old
    ELSE LET merge(c) == IF c.id = updatedClaim.id
                         THEN [c EXCEPT !.claimNumber = updatedClaim.claimNumber,
                                        !.customer = updatedClaim.customer,
                                        !.status = updatedClaim.status]
                         ELSE c
         IN MkList([i \in 1..Len(old.items) |-> merge(old.items[i])])

\* useDeleteClaim.onMutate
DeleteSpeculateList(old, id) ==
    IF old = Absent THEN old
    ELSE LET keep(c) == c.id # id
         IN MkList(SelectSeq(old.items, keep))

\* onError of every mutation: if (context?.previous) setQueryData(key, previous)
Rollback(current, previous) == IF Truthy(previous) THEN previous ELSE current

\* queryClient.cancelQueries({ queryKey: filter })
CancelQueries(f, filter) ==
    LET \* partial matching of a query filter against a query key
        MatchesKey(key) ==
            /\ Len(filter) <= Len(key)
            /\ \A i \in 1..Len(filter) : filter[i] = key[i]
    IN [k \in Keys |-> IF MatchesKey(k) THEN NoFetch ELSE f[k]]

\* ------------------------------------------------------------------------
\* Initial state
\* ------------------------------------------------------------------------
Init ==
    /\ cache = [k \in Keys |-> Absent]
    /\ fetching = [k \in Keys |-> NoFetch]
    /\ muts = [m \in MutIds |-> IdleMut]
    /\ now = 0
    /\ dbClaims = [id \in ServerIds |-> IF id \in InitialIds THEN InitialRow(id) ELSE NoRow]
    /\ dbLinks = {}
    /\ dbItems = {MkItemRow("i1", "c1"), MkItemRow("i2", "c2")}
    /\ dbAttachments = {[t |-> "attachment", id |-> 0, itemId |-> "i1"]}
    /\ nextToken = 0
    /\ reqs = [r \in ReqIds |-> IdleReq]
    /\ queryError = [k \in Keys |-> FALSE]
    /\ searchQuery = <<>>
    /\ debouncedSearch = <<>>
    /\ selectedStatuses = <<>>
    /\ bucket = <<>>
    /\ rows = {}
    /\ mig = IdleMig
    \* the two confirmation dialogs of ClaimDetailsCard: useState(1),
    \* useState(""); confirms counts the calls of onConfirm
    /\ dialog = [d \in {"discard", "delete"} |->
                    [open |-> FALSE, step |-> 1, inputValue |-> "", confirms |-> 0]]

\* ------------------------------------------------------------------------
\* Client: scheduling
\* ------------------------------------------------------------------------
\* mutations are numbered in the order they are started
CanStart(m) ==
    /\ muts[m].pc = "idle"
    /\ IF m = 1 THEN TRUE ELSE muts[m - 1].pc # "idle"

\* A continuation after an await inside onMutate is a microtask: it runs
\* before the next network response, timer or user event is dispatched.
Quiescent == \A m \in MutIds : muts[m].pc \notin {"onMutate1", "onMutate"}

SetMut(m, r) == muts' = [muts EXCEPT ![m] = r]

\* the callbacks have run: the status and the result stay, the context goes
Settled(mut, pc, resp) ==
    LET \* what the call site shows.  The claims page calls
        \* createClaim.mutate(data, { onSuccess }) and its onSuccess closes the
        \* dialog; every other call site awaits mutateAsync inside try/catch
        \* with toast.error in the catch and, but for handleNewItem and
        \* handleReorder, toast.success after the await.
        toast == IF mut.kind = "create" THEN "none"
                 ELSE IF pc = "error" THEN "error"
                 ELSE IF mut.kind \in {"itemCreate", "reorder"} THEN "none"
                 ELSE "success"
    IN [mut EXCEPT !.pc = pc, !.resp = resp, !.prevList = Absent, !.prevItem = Absent,
                   !.toast = toast]

NextSeq == Cardinality({x \in MutIds : muts[x].seq > 0}) + 1

\* ------------------------------------------------------------------------
\* Client: background fetches (useClaims, useClaim, useShareLink)
\* ------------------------------------------------------------------------
\* setQueryData with defined data puts a query in state success
ClearErrors(written) ==
    queryError' = [k \in Keys |-> IF k \in written THEN FALSE ELSE queryError[k]]

\* the status React Query reports for a key
QueryStatus(k) ==
    IF fetching[k] # NoFetch /\ cache[k] = Absent THEN "pending"
    ELSE IF queryError[k] THEN "error"
    ELSE IF cache[k] = Absent THEN "pending"
    ELSE "success"

\* an observer mounts or the window regains focus: the query function runs
\* and the handler answers, normally or from its catch block
StartFetch(k, healthy) ==
    /\ Quiescent
    /\ fetching[k] = NoFetch
    /\ fetching' = [fetching EXCEPT ![k] =
                      [t |-> "fetch",
                       response |-> IF healthy THEN GetResponse(k, dbClaims, dbLinks)
                                    ELSE MkGetResponse(500, Absent)]]
    /\ UNCHANGED <<cache, muts, now, dbVars, reqs, queryError, pageVars, sideVars>>

\* the response arrives; a rejected query function leaves the data alone and
\* puts the query in state error
FetchLand(k) ==
    /\ Quiescent
    /\ fetching[k] # NoFetch
    /\ LET data == QueryFn(k, fetching[k].response)
       IN /\ cache' = [cache EXCEPT ![k] = IF data = FetchError THEN @ ELSE data]
          /\ queryError' = [queryError EXCEPT ![k] = (data = FetchError)]
    /\ fetching' = [fetching EXCEPT ![k] = NoFetch]
    /\ UNCHANGED <<muts, now, dbVars, reqs, pageVars, sideVars>>

\* ------------------------------------------------------------------------
\* Client: useCreateClaim
\* ------------------------------------------------------------------------
CreateStart(m, data) ==
    /\ CanStart(m)
    /\ fetching' = CancelQueries(fetching, ListKey)
    /\ SetMut(m, [IdleMut EXCEPT !.kind = "create", !.pc = "onMutate", !.data = data])
    /\ UNCHANGED <<cache, now, dbVars, reqs, pageVars, sideVars>>
    /\ UNCHANGED queryError

\* t is what Date.now() returns: the millisecond of the previous reading or a
\* later one
CreateOnMutate(m, t) ==
    /\ muts[m].kind = "create" /\ muts[m].pc = "onMutate"
    /\ t >= now /\ t <= MaxClock
    /\ now' = t
    /\ LET \* id: `temp-${Date.now()}`
           tempClaim == MkClaim(<<"temp-0", "temp-1", "temp-2", "temp-3">>[t + 1],
                                muts[m].data.claimNumber, OrNull(muts[m].data.customer),
                                "PENDING", "temp")
       IN /\ cache' = [cache EXCEPT ![ListKey] = CreateSpeculate(@, tempClaim)]
          /\ SetMut(m, [muts[m] EXCEPT !.pc = "inflight", !.seq = NextSeq, !.prevList = cache[ListKey],
                                       !.temp = tempClaim.id])
    /\ UNCHANGED <<fetching, dbVars, reqs, pageVars, sideVars>>
    /\ ClearErrors({ListKey})

CreateSuccess(m, r) ==
    /\ Quiescent
    /\ muts[m].kind = "create" /\ muts[m].pc = "inflight"
    /\ Resolves("create", r)
    /\ (\A i \in ServerIds : dbClaims[i] # NoRow => dbClaims[i].claimNumber # muts[m].data.claimNumber)
    /\ \E id \in {i \in ServerIds \ InitialIds : dbClaims[i] = NoRow} :
         LET newClaim == CreateRow(id, muts[m].data)
         IN /\ dbClaims' = [dbClaims EXCEPT ![id] = newClaim]
            /\ cache' = [cache EXCEPT ![ListKey] = CreateCommit(@, newClaim, muts[m].temp)]
            /\ SetMut(m, Settled(muts[m], "success", newClaim))
    /\ UNCHANGED <<fetching, now, dbLinks, nextToken, reqs, pageVars, itemVars, sideVars>>
    /\ ClearErrors({ListKey})

CreateError(m, r) ==
    /\ Quiescent
    /\ muts[m].kind = "create" /\ muts[m].pc = "inflight"
    /\ ~Resolves("create", r)
    /\ IF r.applied
       THEN /\ (\A i \in ServerIds : dbClaims[i] # NoRow => dbClaims[i].claimNumber # muts[m].data.claimNumber)
            /\ \E id \in {i \in ServerIds \ InitialIds : dbClaims[i] = NoRow} :
                 dbClaims' = [dbClaims EXCEPT ![id] = CreateRow(id, muts[m].data)]
       ELSE UNCHANGED dbClaims
    /\ cache' = [cache EXCEPT ![ListKey] = Rollback(@, muts[m].prevList)]
    /\ SetMut(m, Settled(muts[m], "error", Absent))
    /\ UNCHANGED <<fetching, now, dbLinks, nextToken, reqs, pageVars, itemVars, sideVars>>
    /\ ClearErrors(IF Truthy(muts[m].prevList) THEN {ListKey} ELSE {})

\* ------------------------------------------------------------------------
\* Client: useUpdateClaim
\* ------------------------------------------------------------------------
UpdateStart(m, id, data) ==
    /\ CanStart(m)
    /\ fetching' = CancelQueries(fetching, DetailKey(id))
    /\ SetMut(m, [IdleMut EXCEPT !.kind = "update", !.pc = "onMutate", !.id = id, !.data = data])
    /\ UNCHANGED <<cache, now, dbVars, reqs, pageVars, sideVars>>
    /\ UNCHANGED queryError

UpdateOnMutate(m) ==
    /\ muts[m].kind = "update" /\ muts[m].pc = "onMutate"
    /\ cache' = [cache EXCEPT ![DetailKey(muts[m].id)] = UpdateSpeculate(@, muts[m].data)]
    /\ SetMut(m, [muts[m] EXCEPT !.pc = "inflight", !.seq = NextSeq, !.prevItem = cache[DetailKey(muts[m].id)]])
    /\ UNCHANGED <<fetching, now, dbVars, reqs, pageVars, sideVars>>
    /\ ClearErrors(IF cache[DetailKey(muts[m].id)] # Absent THEN {DetailKey(muts[m].id)} ELSE {})

UpdateSuccess(m, r) ==
    /\ Quiescent
    /\ muts[m].kind = "update" /\ muts[m].pc = "inflight"
    /\ Resolves("update", r)
    /\ dbClaims[muts[m].id] # NoRow
    /\ LET updatedClaim == PatchRow(dbClaims[muts[m].id], muts[m].data)
       IN /\ dbClaims' = [dbClaims EXCEPT ![muts[m].id] = updatedClaim]
          /\ cache' = [cache EXCEPT ![ListKey] = UpdateCommitList(@, updatedClaim)]
          /\ SetMut(m, Settled(muts[m], "success", updatedClaim))
    /\ UNCHANGED <<fetching, now, dbLinks, nextToken, reqs, pageVars, itemVars, sideVars>>
    /\ ClearErrors(IF cache[ListKey] # Absent THEN {ListKey} ELSE {})

UpdateError(m, r) ==
    /\ Quiescent
    /\ muts[m].kind = "update" /\ muts[m].pc = "inflight"
    /\ ~Resolves("update", r)
    /\ IF r.applied
       THEN /\ dbClaims[muts[m].id] # NoRow
            /\ dbClaims' = [dbClaims EXCEPT ![muts[m].id] = PatchRow(@, muts[m].data)]
       ELSE UNCHANGED dbClaims
    /\ cache' = [cache EXCEPT ![DetailKey(muts[m].id)] = Rollback(@, muts[m].prevItem)]
    /\ SetMut(m, Settled(muts[m], "error", Absent))
    /\ UNCHANGED <<fetching, now, dbLinks, nextToken, reqs, pageVars, itemVars, sideVars>>
    /\ ClearErrors(IF Truthy(muts[m].prevItem) THEN {DetailKey(muts[m].id)} ELSE {})

\* ------------------------------------------------------------------------
\* Client: useDeleteClaim
\* ------------------------------------------------------------------------
DeleteStart(m, id) ==
    /\ CanStart(m)
    /\ fetching' = CancelQueries(fetching, ListKey)
    /\ SetMut(m, [IdleMut EXCEPT !.kind = "delete", !.pc = "onMutate1", !.id = id])
    /\ UNCHANGED <<cache, now, dbVars, reqs, pageVars, sideVars>>
    /\ UNCHANGED queryError

\* the second awaited cancelQueries of onMutate
DeleteCancelDetail(m) ==
    /\ muts[m].kind = "delete" /\ muts[m].pc = "onMutate1"
    /\ fetching' = CancelQueries(fetching, DetailKey(muts[m].id))
    /\ SetMut(m, [muts[m] EXCEPT !.pc = "onMutate"])
    /\ UNCHANGED <<cache, now, dbVars, reqs, pageVars, sideVars>>
    /\ UNCHANGED queryError

\* snapshot, filter the list, removeQueries on the detail key
DeleteOnMutate(m) ==
    /\ muts[m].kind = "delete" /\ muts[m].pc = "onMutate"
    /\ LET id == muts[m].id
       IN /\ cache' = [cache EXCEPT ![ListKey] = DeleteSpeculateList(@, id),
                                    ![DetailKey(id)] = Absent]
          /\ fetching' = CancelQueries(fetching, DetailKey(id))
          /\ SetMut(m, [muts[m] EXCEPT !.pc = "inflight", !.seq = NextSeq, !.prevList = cache[ListKey],
                                       !.prevItem = cache[DetailKey(id)]])
    /\ UNCHANGED <<now, dbVars, reqs, pageVars, sideVars>>
    /\ ClearErrors({DetailKey(muts[m].id)} \cup (IF cache[ListKey] # Absent THEN {ListKey} ELSE {}))

DeleteSuccess(m, r) ==
    /\ Quiescent
    /\ muts[m].kind = "delete" /\ muts[m].pc = "inflight"
    /\ Resolves("delete", r)
    /\ dbClaims[muts[m].id] # NoRow
    /\ dbClaims' = [dbClaims EXCEPT ![muts[m].id] = NoRow]
    /\ dbLinks' = CascadeLinks(dbLinks, muts[m].id)
    /\ dbItems' = CascadeItems(dbItems, muts[m].id)
    /\ dbAttachments' = CascadeAttachments(dbAttachments, dbItems')
    /\ SetMut(m, Settled(muts[m], "success", Absent))
    /\ UNCHANGED <<cache, fetching, now, nextToken, reqs, pageVars, sideVars>>
    /\ UNCHANGED queryError

DeleteError(m, r) ==
    /\ Quiescent
    /\ muts[m].kind = "delete" /\ muts[m].pc = "inflight"
    /\ ~Resolves("delete", r)
    /\ IF r.applied
       THEN /\ dbClaims[muts[m].id] # NoRow
            /\ dbClaims' = [dbClaims EXCEPT ![muts[m].id] = NoRow]
            /\ dbLinks' = CascadeLinks(dbLinks, muts[m].id)
            /\ dbItems' = CascadeItems(dbItems, muts[m].id)
            /\ dbAttachments' = CascadeAttachments(dbAttachments, dbItems')
       ELSE UNCHANGED <<dbClaims, dbLinks, itemVars>>
    /\ cache' = [cache EXCEPT ![ListKey] = Rollback(@, muts[m].prevList),
                              ![DetailKey(muts[m].id)] = Rollback(@, muts[m].prevItem)]
    /\ SetMut(m, Settled(muts[m], "error", Absent))
    /\ UNCHANGED <<fetching, now, nextToken, reqs, pageVars, sideVars>>
    /\ ClearErrors((IF Truthy(muts[m].prevList) THEN {ListKey} ELSE {})
                   \cup (IF Truthy(muts[m].prevItem) THEN {DetailKey(muts[m].id)} ELSE {}))

\* ------------------------------------------------------------------------
\* Client: useCreateShareLink, useRevokeShareLink
\* ------------------------------------------------------------------------
\* no onMutate: the request is issued at once
ShareCreateStart(m, id) ==
    /\ CanStart(m)
    /\ SetMut(m, [IdleMut EXCEPT !.kind = "shareCreate", !.pc = "inflight", !.seq = NextSeq, !.id = id])
    /\ UNCHANGED <<cache, fetching, now, dbVars, reqs, pageVars, sideVars>>
    /\ UNCHANGED queryError

ShareCreateSuccess(m, r) ==
    /\ Quiescent
    /\ muts[m].kind = "shareCreate" /\ muts[m].pc = "inflight"
    /\ Resolves("shareCreate", r)
    /\ dbClaims[muts[m].id] # NoRow
    /\ LET existingLink == FindLink(dbLinks, muts[m].id)
           shareLink == IF existingLink # NoLink THEN existingLink
                        ELSE MkLink(nextToken + 1, muts[m].id)
       IN /\ dbLinks' = dbLinks \cup {shareLink}
          /\ nextToken' = IF existingLink # NoLink THEN nextToken ELSE nextToken + 1
          /\ cache' = [cache EXCEPT ![ShareKey(muts[m].id)] = shareLink]
          \* handleCopyLink goes on to copyToClipboard, which may throw
          /\ \E copied \in BOOLEAN :
               SetMut(m, [Settled(muts[m], "success", shareLink)
                            EXCEPT !.toast = IF copied THEN "success" ELSE "error"])
    /\ UNCHANGED <<fetching, now, dbClaims, reqs, pageVars, itemVars, sideVars>>
    /\ ClearErrors({ShareKey(muts[m].id)})

ShareCreateError(m, r) ==
    /\ Quiescent
    /\ muts[m].kind = "shareCreate" /\ muts[m].pc = "inflight"
    /\ ~Resolves("shareCreate", r)
    /\ IF r.applied
       THEN /\ dbClaims[muts[m].id] # NoRow
            /\ LET existingLink == FindLink(dbLinks, muts[m].id)
               IN IF existingLink # NoLink THEN UNCHANGED <<dbLinks, nextToken>>
                  ELSE /\ dbLinks' = dbLinks \cup {MkLink(nextToken + 1, muts[m].id)}
                       /\ nextToken' = nextToken + 1
       ELSE UNCHANGED <<dbLinks, nextToken>>
    /\ SetMut(m, Settled(muts[m], "error", Absent))
    /\ UNCHANGED <<cache, fetching, now, dbClaims, reqs, pageVars, itemVars, sideVars>>
    /\ UNCHANGED queryError

RevokeStart(m, id) ==
    /\ CanStart(m)
    /\ fetching' = CancelQueries(fetching, ShareKey(id))
    /\ SetMut(m, [IdleMut EXCEPT !.kind = "shareRevoke", !.pc = "onMutate", !.id = id])
    /\ UNCHANGED <<cache, now, dbVars, reqs, pageVars, sideVars>>
    /\ UNCHANGED queryError

RevokeOnMutate(m) ==
    /\ muts[m].kind = "shareRevoke" /\ muts[m].pc = "onMutate"
    /\ cache' = [cache EXCEPT ![ShareKey(muts[m].id)] = NoLink]
    /\ SetMut(m, [muts[m] EXCEPT !.pc = "inflight", !.seq = NextSeq, !.prevItem = cache[ShareKey(muts[m].id)]])
    /\ UNCHANGED <<fetching, now, dbVars, reqs, pageVars, sideVars>>
    /\ ClearErrors({ShareKey(muts[m].id)})

RevokeSuccess(m, r) ==
    /\ Quiescent
    /\ muts[m].kind = "shareRevoke" /\ muts[m].pc = "inflight"
    /\ Resolves("shareRevoke", r)
    /\ FindLink(dbLinks, muts[m].id) # NoLink
    /\ dbLinks' = dbLinks \ LinksOf(dbLinks, muts[m].id)
    /\ SetMut(m, Settled(muts[m], "success", Absent))
    /\ UNCHANGED <<cache, fetching, now, dbClaims, nextToken, reqs, pageVars, itemVars,
                   sideVars>>
    /\ UNCHANGED queryError

RevokeError(m, r) ==
    /\ Quiescent
    /\ muts[m].kind = "shareRevoke" /\ muts[m].pc = "inflight"
    /\ ~Resolves("shareRevoke", r)
    /\ IF r.applied
       THEN /\ FindLink(dbLinks, muts[m].id) # NoLink
            /\ dbLinks' = dbLinks \ LinksOf(dbLinks, muts[m].id)
       ELSE UNCHANGED dbLinks
    /\ cache' = [cache EXCEPT ![ShareKey(muts[m].id)] = Rollback(@, muts[m].prevItem)]
    /\ SetMut(m, Settled(muts[m], "error", Absent))
    /\ UNCHANGED <<fetching, now, dbClaims, nextToken, reqs, pageVars, itemVars, sideVars>>
    /\ ClearErrors(IF Truthy(muts[m].prevItem) THEN {ShareKey(muts[m].id)} ELSE {})

\* ------------------------------------------------------------------------
\* Client specifications
\* ------------------------------------------------------------------------

\* the claims list and detail views with the claim mutations
Next ==
    \/ \E k \in {key \in Keys : key[1] = "claims"}, healthy \in BOOLEAN : StartFetch(k, healthy)
    \/ \E k \in {key \in Keys : key[1] = "claims"} : FetchLand(k)
    \/ \E m \in MutIds, data \in {[claimNumber |-> "N3", customer |-> Undef, status |-> Undef]} : CreateStart(m, data)
    \/ \E m \in MutIds, t \in 0..MaxClock : CreateOnMutate(m, t)
    \/ \E m \in MutIds, r \in Responses : CreateSuccess(m, r)
    \/ \E m \in MutIds, r \in Responses : CreateError(m, r)
    \/ \E m \in MutIds, id \in ViewIds, data \in UpdateInputs : UpdateStart(m, id, data)
    \/ \E m \in MutIds : UpdateOnMutate(m)
    \/ \E m \in MutIds, r \in Responses : UpdateSuccess(m, r)
    \/ \E m \in MutIds, r \in Responses : UpdateError(m, r)
    \/ \E m \in MutIds, id \in ViewIds : DeleteStart(m, id)
    \/ \E m \in MutIds : DeleteCancelDetail(m)
    \/ \E m \in MutIds : DeleteOnMutate(m)
    \/ \E m \in MutIds, r \in Responses : DeleteSuccess(m, r)
    \/ \E m \in MutIds, r \in Responses : DeleteError(m, r)

Spec == Init /\ [][Next]_vars

\* the claims page with its create dialog
NextCreate ==
    \/ \E healthy \in BOOLEAN : StartFetch(ListKey, healthy)
    \/ FetchLand(ListKey)
    \/ \E m \in MutIds, data \in {[claimNumber |-> "N3", customer |-> Undef, status |-> Undef]} : CreateStart(m, data)
    \/ \E m \in MutIds, t \in 0..MaxClock : CreateOnMutate(m, t)
    \/ \E m \in MutIds, r \in Responses : CreateSuccess(m, r)
    \/ \E m \in MutIds, r \in Responses : CreateError(m, r)

SpecCreate == Init /\ [][NextCreate]_vars

\* the detail view of a claim, opened on its own, with the edits of its details
NextUpdate ==
    \/ \E id \in ViewIds, healthy \in BOOLEAN : StartFetch(DetailKey(id), healthy)
    \/ \E id \in ViewIds : FetchLand(DetailKey(id))
    \/ \E m \in MutIds, id \in ViewIds, data \in UpdateInputs : UpdateStart(m, id, data)
    \/ \E m \in MutIds : UpdateOnMutate(m)
    \/ \E m \in MutIds, r \in Responses : UpdateSuccess(m, r)
    \/ \E m \in MutIds, r \in Responses : UpdateError(m, r)

SpecUpdate == Init /\ [][NextUpdate]_vars

\* the share button of the detail page with the share-link mutations
NextShare ==
    \/ \E id \in ViewIds, healthy \in BOOLEAN : StartFetch(ShareKey(id), healthy)
    \/ \E id \in ViewIds : FetchLand(ShareKey(id))
    \/ \E m \in MutIds, id \in ViewIds : ShareCreateStart(m, id)
    \/ \E m \in MutIds, r \in Responses : ShareCreateSuccess(m, r)
    \/ \E m \in MutIds, r \in Responses : ShareCreateError(m, r)
    \/ \E m \in MutIds, id \in ViewIds : RevokeStart(m, id)
    \/ \E m \in MutIds : RevokeOnMutate(m)
    \/ \E m \in MutIds, r \in Responses : RevokeSuccess(m, r)
    \/ \E m \in MutIds, r \in Responses : RevokeError(m, r)

SpecShare == Init /\ [][NextShare]_vars

\* ------------------------------------------------------------------------
\* Client: the items of a claim (claims/[id]/page.tsx with useCreateItem,
\* useUpdateItem, useReorderItems)
\* ------------------------------------------------------------------------
\* a title is the sequence of its characters
MkItem(id, title, order) == [t |-> "item", id |-> id, title |-> title, order |-> order]
MkItems(items) == [t |-> "items", items |-> items]

InitialItems ==
    MkItems(<<MkItem("i1", <<"a">>, 0), MkItem("i2", <<"b">>, 1), MkItem("i3", <<"c">>, 2)>>)

\* a trim that removes nothing
TrimNone(s) == s

\* String.prototype.trim
Trim(s) ==
    LET RECURSIVE start(_)
        start(u) == IF u # <<>> /\ Head(u) = " " THEN start(Tail(u)) ELSE u
        RECURSIVE end(_)
        end(u) == IF u # <<>> /\ u[Len(u)] = " " THEN end(SubSeq(u, 1, Len(u) - 1)) ELSE u
    IN end(start(s))

\* claim?.items ?? []
ItemsOf(list) == IF list = Absent THEN <<>> ELSE list.items

ItemIdsOf(list) == {ItemsOf(list)[i].id : i \in 1..Len(ItemsOf(list))}

ItemKinds == {"itemCreate", "itemUpdate", "reorder"}

\* every sequence that holds each item of a list once, and the same below
\* the draft of the page that keeps a new item local until it is saved
\* ([draftItem, ...realItems])
Arrangements(list) ==
    LET items == {ItemsOf(list)[i] : i \in 1..Len(ItemsOf(list))}
        n == Cardinality(items)
        saved == {q \in [1..n -> items] : \A i, j \in 1..n : i # j => q[i] # q[j]}
        draftItem == [t |-> "item", id |-> "draft-0", title |-> <<>>, order |-> 0,
                      isDraft |-> TRUE]
    IN saved \cup {<<draftItem>> \o q : q \in saved}

\* a filter that lets the draft through
IsDraftItemNever(item) == FALSE

\* 'isDraft' in item && item.isDraft === true
IsDraftItem(item) == "isDraft" \in DOMAIN item /\ item.isDraft = TRUE

\* handleReorder with `order: item.order` in place of `order: index`
ReorderedItemsStale(newOrder) ==
    [i \in 1..Len(newOrder) |-> [id |-> newOrder[i].id, order |-> newOrder[i].order]]

\* handleReorder: newOrder.map((item, index) => ({ id: item.id, order: index }))
ReorderedItems(newOrder) ==
    [i \in 1..Len(newOrder) |-> [id |-> newOrder[i].id, order |-> i - 1]]

\* the speculative transforms of the item mutations
ItemCreateSpeculate(old, tempItem) ==
    MkItems(<<tempItem>> \o [i \in 1..Len(ItemsOf(old)) |->
                               [ItemsOf(old)[i] EXCEPT !.order = @ + 1]])

ItemUpdateSpeculate(old, id, title) ==
    IF old = Absent THEN old
    ELSE MkItems([i \in 1..Len(old.items) |->
                    IF old.items[i].id = id THEN [old.items[i] EXCEPT !.title = title]
                    ELSE old.items[i]])

\* the items in the sequence of the payload, each with the order value the
\* payload gives it, in one write; items the payload does not name follow
ReorderSpeculate(old, reordered) ==
    LET item(id) == CHOOSE x \in {old.items[i] : i \in 1..Len(old.items)} : x.id = id
        named == {reordered[i].id : i \in 1..Len(reordered)}
        cached == ItemIdsOf(old)
        kept == SelectSeq(reordered, LAMBDA p : p.id \in cached)
        unnamed(x) == x.id \notin named
    IN IF old = Absent THEN old
       ELSE MkItems([i \in 1..Len(kept) |-> [item(kept[i].id) EXCEPT !.order = kept[i].order]]
                    \o SelectSeq(old.items, unnamed))

\* the commit of a create: the placeholder becomes the server's item
ItemCreateCommit(old, tempId, serverItem) ==
    IF old = Absent THEN old
    ELSE MkItems([i \in 1..Len(old.items) |->
                    IF old.items[i].id = tempId
                    THEN [serverItem EXCEPT !.order = old.items[i].order]
                    ELSE old.items[i]])

\* a reconciliation is applied only by the latest mutation of the key
IsLatest(m) == \A x \in MutIds : muts[x].kind \in ItemKinds => muts[x].seq <= muts[m].seq

\* the response is a success only with a 2xx status and a well-formed body
ItemResolves(r) == r.status # 0 /\ Ok(r) /\ r.body = "json"

\* the claim arrives with its items
ItemsLoad ==
    /\ cache[ItemsKey] = Absent
    /\ cache' = [cache EXCEPT ![ItemsKey] = InitialItems]
    /\ UNCHANGED <<fetching, muts, now, dbVars, reqs, pageVars, sideVars>>
    /\ ClearErrors({ItemsKey})

\* handleNewItem: createItemMutation.mutateAsync({ claimId, title: '', ... });
\* the mutation cancels, snapshots and inserts its placeholder at order 0
HandleNewItem(m) ==
    /\ CanStart(m)
    /\ LET tempItem == MkItem(<<"tmp1", "tmp2", "tmp3", "tmp4">>[m], <<>>, 0)
       IN /\ cache' = [cache EXCEPT ![ItemsKey] = ItemCreateSpeculate(@, tempItem)]
          /\ SetMut(m, [IdleMut EXCEPT !.kind = "itemCreate", !.pc = "inflight", !.seq = NextSeq,
                                       !.data = [title |-> tempItem.title],
                                       !.temp = tempItem.id, !.prevList = cache[ItemsKey]])
    /\ fetching' = CancelQueries(fetching, ItemsKey)
    /\ UNCHANGED <<now, dbVars, reqs, pageVars, sideVars>>
    /\ ClearErrors({ItemsKey})

\* handleSaveItem: the edit dialog of a cached item hands over a title
HandleSaveItem(m, id, title) ==
    /\ CanStart(m)
    /\ id \in ItemIdsOf(cache[ItemsKey])
    /\ IF Trim(title) = <<>>
       THEN \* toast.error('Title is required'); return
            /\ SetMut(m, [IdleMut EXCEPT !.kind = "itemUpdate", !.pc = "rejected", !.id = id,
                                         !.data = [title |-> title], !.toast = "error"])
            /\ UNCHANGED <<cache, fetching>>
       ELSE /\ cache' = [cache EXCEPT ![ItemsKey] = ItemUpdateSpeculate(@, id, title)]
            /\ fetching' = CancelQueries(fetching, ItemsKey)
            /\ SetMut(m, [IdleMut EXCEPT !.kind = "itemUpdate", !.pc = "inflight", !.seq = NextSeq,
                                         !.id = id, !.data = [title |-> title],
                                         !.prevList = cache[ItemsKey]])
    /\ UNCHANGED <<now, dbVars, reqs, pageVars, sideVars>>
    /\ ClearErrors(IF Trim(title) = <<>> THEN {} ELSE {ItemsKey})

\* handleReorder: the drag hands over the displayed items in their new sequence
HandleReorder(m, newOrder) ==
    /\ CanStart(m)
    /\ LET \* newOrder.filter(item => !isDraftItem(item)); the page without
           \* drafts maps newOrder itself
           realItemsOnly == SelectSeq(newOrder, LAMBDA item : ~IsDraftItem(item))
           reorderedItems == ReorderedItems(realItemsOnly)
           data == [items |-> reorderedItems]
       IN /\ IF Len(reorderedItems) = 0
             THEN \* return
                  /\ SetMut(m, [IdleMut EXCEPT !.kind = "reorder", !.pc = "rejected",
                                               !.data = data])
                  /\ UNCHANGED <<cache, fetching>>
             ELSE /\ cache' = [cache EXCEPT ![ItemsKey] = ReorderSpeculate(@, reorderedItems)]
                  /\ fetching' = CancelQueries(fetching, ItemsKey)
                  /\ SetMut(m, [IdleMut EXCEPT !.kind = "reorder", !.pc = "inflight",
                                               !.seq = NextSeq, !.data = data,
                                               !.prevList = cache[ItemsKey]])
          /\ ClearErrors(IF Len(reorderedItems) = 0 THEN {} ELSE {ItemsKey})
    /\ UNCHANGED <<now, dbVars, reqs, pageVars, sideVars>>

ItemCreateSuccess(m, r) ==
    /\ Quiescent
    /\ muts[m].kind = "itemCreate" /\ muts[m].pc = "inflight"
    /\ ItemResolves(r)
    /\ LET serverItem == MkItem(<<"s1", "s2", "s3", "s4">>[m], muts[m].data.title, 0)
       IN /\ cache' = [cache EXCEPT ![ItemsKey] =
                         IF IsLatest(m) THEN ItemCreateCommit(@, muts[m].temp, serverItem) ELSE @]
          /\ SetMut(m, Settled(muts[m], "success", serverItem))
    /\ UNCHANGED <<fetching, now, dbVars, reqs, pageVars, sideVars>>
    /\ ClearErrors(IF IsLatest(m) /\ cache[ItemsKey] # Absent THEN {ItemsKey} ELSE {})

ItemUpdateSuccess(m, r) ==
    /\ Quiescent
    /\ muts[m].kind = "itemUpdate" /\ muts[m].pc = "inflight"
    /\ ItemResolves(r)
    /\ cache' = [cache EXCEPT ![ItemsKey] =
                   IF IsLatest(m) THEN ItemUpdateSpeculate(@, muts[m].id, muts[m].data.title) ELSE @]
    /\ SetMut(m, Settled(muts[m], "success", Absent))
    /\ UNCHANGED <<fetching, now, dbVars, reqs, pageVars, sideVars>>
    /\ ClearErrors(IF IsLatest(m) /\ cache[ItemsKey] # Absent THEN {ItemsKey} ELSE {})

ReorderSuccess(m, r) ==
    /\ Quiescent
    /\ muts[m].kind = "reorder" /\ muts[m].pc = "inflight"
    /\ ItemResolves(r)
    /\ cache' = [cache EXCEPT ![ItemsKey] =
                   IF IsLatest(m) THEN ReorderSpeculate(@, muts[m].data.items) ELSE @]
    /\ SetMut(m, Settled(muts[m], "success", Absent))
    /\ UNCHANGED <<fetching, now, dbVars, reqs, pageVars, sideVars>>
    /\ ClearErrors(IF IsLatest(m) /\ cache[ItemsKey] # Absent THEN {ItemsKey} ELSE {})

\* the rollback of an item mutation: the snapshot, as it was
ItemError(m, r) ==
    /\ Quiescent
    /\ muts[m].kind \in ItemKinds /\ muts[m].pc = "inflight"
    /\ ~ItemResolves(r)
    /\ cache' = [cache EXCEPT ![ItemsKey] = IF IsLatest(m) THEN muts[m].prevList ELSE @]
    /\ SetMut(m, Settled(muts[m], "error", Absent))
    /\ UNCHANGED <<fetching, now, dbVars, reqs, pageVars, sideVars>>
    /\ ClearErrors(IF IsLatest(m) /\ muts[m].prevList # Absent THEN {ItemsKey} ELSE {})

NextItems ==
    \/ ItemsLoad
    \/ \E m \in MutIds : HandleNewItem(m)
    \/ \E m \in MutIds, id \in ItemIdsOf(cache[ItemsKey]),
          title \in {<<>>, <<" ">>, <<" ", " ">>, <<"x">>, <<" ", "x", " ">>} :
         HandleSaveItem(m, id, title)
    \/ \E m \in MutIds, newOrder \in Arrangements(cache[ItemsKey]) :
         HandleReorder(m, newOrder)
    \/ \E m \in MutIds, r \in Responses : ItemCreateSuccess(m, r)
    \/ \E m \in MutIds, r \in Responses : ItemUpdateSuccess(m, r)
    \/ \E m \in MutIds, r \in Responses : ReorderSuccess(m, r)
    \/ \E m \in MutIds, r \in Responses : ItemError(m, r)

SpecItems == Init /\ [][NextItems]_vars

\* ------------------------------------------------------------------------
\* Client: the filter of the claims page (claims/page.tsx with
\* useClaimsFilter and the toolbar)
\* ------------------------------------------------------------------------
\* a string is the sequence of its characters
MaxQuery == 2

\* String.prototype.toLowerCase
ToLowerCase(str) ==
    [i \in 1..Len(str) |-> IF str[i] = "A" THEN "a" ELSE IF str[i] = "B" THEN "b" ELSE str[i]]

\* String.prototype.includes
Includes(str, search) ==
    \E start \in 0..(Len(str) - Len(search)) :
        \A i \in 1..Len(search) : str[start + i] = search[i]

MkClaimWithCount(id, claimNumber, claimantName, customer, adjustorName, status) ==
    [t |-> "claim", id |-> id, claimNumber |-> claimNumber, claimantName |-> claimantName,
     customer |-> customer, adjustorName |-> adjustorName, status |-> status]

\* the lists the claims query can deliver
ClaimLists ==
    {MkList(<<>>),
     MkList(<<MkClaimWithCount("c1", Str(<<"A", "b">>), NullStr, Str(<<"a", " ", "a">>),
                               Str(<<>>), "PENDING"),
              MkClaimWithCount("c2", Str(<<"b", "b">>), Str(<<"b", "A">>), NullStr, NullStr,
                               "APPROVED"),
              MkClaimWithCount("c3", Str(<<"b">>), NullStr, NullStr, Str(<<" ", "B">>),
                               "CLOSED")>>)}

\* the query is compared as typed, without its case
MatchesSearchCaseSensitive(claim, searchText) ==
    \E i \in 1..4 :
        LET field == <<claim.claimNumber, claim.claimantName, claim.customer,
                       claim.adjustorName>>[i]
        IN IF field = NullStr THEN FALSE
           ELSE Includes(ToLowerCase(field.chars), searchText)

\* searchableFields.some((field) => field?.toLowerCase().includes(query))
MatchesSearch(claim, searchText) ==
    LET query == ToLowerCase(searchText)
    IN \E i \in 1..4 :
        LET field == <<claim.claimNumber, claim.claimantName, claim.customer,
                       claim.adjustorName>>[i]
        IN IF field = NullStr THEN FALSE
           ELSE Includes(ToLowerCase(field.chars), query)

\* selectedStatuses.includes(status)
IncludesStatus(statuses, status) == \E i \in 1..Len(statuses) : statuses[i] = status

\* filteredClaims
FilteredClaims(claims, searchText, statuses) ==
    IF claims = Absent THEN <<>>
    ELSE LET \* the callback of claims.filter: its two early returns, then true
             KeepsClaim(claim) ==
                 IF Trim(searchText) # <<>> /\ ~MatchesSearch(claim, searchText) THEN FALSE
                 ELSE IF Len(statuses) > 0 /\ ~IncludesStatus(statuses, claim.status) THEN FALSE
                 ELSE TRUE
             RECURSIVE Filter(_)
             Filter(n) ==
                 IF n = 0 THEN <<>>
                 ELSE IF KeepsClaim(claims.items[n])
                      THEN Append(Filter(n - 1), claims.items[n])
                      ELSE Filter(n - 1)
         IN Filter(Len(claims.items))

\* every selected status counts
ActiveFilterCountPerStatus(searchText, statuses) ==
    (IF Trim(searchText) # <<>> THEN 1 ELSE 0) + Len(statuses)

ActiveFilterCount(searchText, statuses) ==
    (IF Trim(searchText) # <<>> THEN 1 ELSE 0) + (IF Len(statuses) > 0 THEN 1 ELSE 0)

\* what useClaimsFilter returns on the current render of the page
UseClaimsFilter ==
    LET filteredClaims == FilteredClaims(cache[ListKey], debouncedSearch, selectedStatuses)
    IN [filteredClaims |-> filteredClaims,
        isEmpty |-> Len(filteredClaims) = 0,
        isFiltered |-> (Trim(debouncedSearch) # <<>> \/ Len(selectedStatuses) > 0),
        activeFilterCount |-> ActiveFilterCount(debouncedSearch, selectedStatuses)]

\* useClaims delivers the list
ClaimsLoad(list) ==
    /\ cache[ListKey] = Absent
    /\ cache' = [cache EXCEPT ![ListKey] = list]
    /\ UNCHANGED <<fetching, muts, now, dbVars, reqs, pageVars, sideVars>>
    /\ ClearErrors({ListKey})

\* onSearchChange(e.target.value), onClear
SetSearchQuery(value) ==
    /\ searchQuery # value
    /\ searchQuery' = value
    /\ UNCHANGED <<cache, fetching, muts, now, dbVars, reqs, queryError, debouncedSearch,
                   selectedStatuses, sideVars>>

\* useDebounce: the timer of the last change of the input fires
DebounceFire ==
    /\ debouncedSearch # searchQuery
    /\ debouncedSearch' = searchQuery
    /\ UNCHANGED <<cache, fetching, muts, now, dbVars, reqs, queryError, searchQuery,
                   selectedStatuses, sideVars>>

\* handleToggleStatus
HandleToggleStatus(status) ==
    /\ selectedStatuses' =
           IF IncludesStatus(selectedStatuses, status)
           THEN SelectSeq(selectedStatuses, LAMBDA s : s # status)
           ELSE Append(selectedStatuses, status)
    /\ UNCHANGED <<cache, fetching, muts, now, dbVars, reqs, queryError, searchQuery,
                   debouncedSearch, sideVars>>

\* clearAllFilters
ClearAllFilters ==
    /\ searchQuery # <<>> \/ selectedStatuses # <<>>
    /\ searchQuery' = <<>>
    /\ selectedStatuses' = <<>>
    /\ UNCHANGED <<cache, fetching, muts, now, dbVars, reqs, queryError, debouncedSearch,
                   sideVars>>

NextFilter ==
    \/ \E list \in ClaimLists : ClaimsLoad(list)
    \* what can be typed: the strings of at most MaxQuery characters
    \/ \E value \in UNION {[1..k -> {"a", "A", "b", " "}] : k \in 0..MaxQuery} :
         SetSearchQuery(value)
    \/ DebounceFire
    \* two of the five statuses of STATUS_OPTIONS
    \/ \E status \in {"PENDING", "APPROVED"} : HandleToggleStatus(status)
    \/ ClearAllFilters

SpecFilter == Init /\ [][NextFilter]_vars

\* ------------------------------------------------------------------------
\* Server: route handlers, one step per awaited Prisma call
\* ------------------------------------------------------------------------
\* requests are numbered in the order they arrive
CanArrive(r) ==
    /\ reqs[r].pc = "idle"
    /\ IF r = 1 THEN TRUE ELSE reqs[r - 1].pc # "idle"

SetReq(r, q) == reqs' = [reqs EXCEPT ![r] = q]

Respond(q, status, token) == [q EXCEPT !.pc = "done", !.status = status, !.token = token]

\* POST /api/claims/[id]/share: prisma.claim.findUnique
SharePostFindClaim(r, id) ==
    /\ CanArrive(r)
    /\ LET q == [IdleReq EXCEPT !.kind = "share", !.id = id]
       IN SetReq(r, IF dbClaims[id] = NoRow THEN Respond(q, 404, 0)
                    ELSE [q EXCEPT !.pc = "findLink"])
    /\ UNCHANGED <<clientVars, dbVars, sideVars>>

\* prisma.shareLink.findUnique; an existing link is returned
SharePostFindLink(r) ==
    /\ reqs[r].kind = "share" /\ reqs[r].pc = "findLink"
    /\ LET existingLink == FindLink(dbLinks, reqs[r].id)
       IN SetReq(r, IF existingLink # NoLink THEN Respond(reqs[r], 200, existingLink.token)
                    ELSE [reqs[r] EXCEPT !.pc = "create"])
    /\ UNCHANGED <<clientVars, dbVars, sideVars>>

\* prisma.shareLink.create; a constraint violation throws and is caught: 500
SharePostCreate(r) ==
    /\ reqs[r].kind = "share" /\ reqs[r].pc = "create"
    /\ IF CanInsertLink(dbClaims, dbLinks, reqs[r].id)
       THEN /\ dbLinks' = dbLinks \cup {MkLink(nextToken + 1, reqs[r].id)}
            /\ nextToken' = nextToken + 1
            /\ SetReq(r, Respond(reqs[r], 201, nextToken + 1))
       ELSE /\ SetReq(r, Respond(reqs[r], 500, 0))
            /\ UNCHANGED <<dbLinks, nextToken>>
    /\ UNCHANGED <<clientVars, dbClaims, itemVars, sideVars>>

\* GET /api/claims/[id]/share
ShareGet(r, id) ==
    /\ CanArrive(r)
    /\ LET q == [IdleReq EXCEPT !.kind = "get", !.id = id]
           shareLink == FindLink(dbLinks, id)
       IN SetReq(r, IF shareLink = NoLink THEN Respond(q, 404, 0)
                    ELSE Respond(q, 200, shareLink.token))
    /\ UNCHANGED <<clientVars, dbVars, sideVars>>

\* DELETE /api/claims/[id]/share: prisma.shareLink.findUnique
ShareDeleteFindLink(r, id) ==
    /\ CanArrive(r)
    /\ LET q == [IdleReq EXCEPT !.kind = "revoke", !.id = id]
       IN SetReq(r, IF FindLink(dbLinks, id) = NoLink THEN Respond(q, 404, 0)
                    ELSE [q EXCEPT !.pc = "delete"])
    /\ UNCHANGED <<clientVars, dbVars, sideVars>>

\* prisma.shareLink.delete; a missing record throws and is caught: 500
ShareDeleteDelete(r) ==
    /\ reqs[r].kind = "revoke" /\ reqs[r].pc = "delete"
    /\ IF FindLink(dbLinks, reqs[r].id) # NoLink
       THEN /\ dbLinks' = dbLinks \ LinksOf(dbLinks, reqs[r].id)
            /\ SetReq(r, Respond(reqs[r], 200, 0))
       ELSE /\ SetReq(r, Respond(reqs[r], 500, 0))
            /\ UNCHANGED dbLinks
    /\ UNCHANGED <<clientVars, dbClaims, nextToken, itemVars, sideVars>>

\* GET /api/share/[token]: the public page of a shared claim
PublicGet(r, token) ==
    /\ CanArrive(r)
    /\ LET q == [IdleReq EXCEPT !.kind = "public"]
           found == {l \in dbLinks : l.token = token}
       IN SetReq(r, IF found = {} THEN Respond(q, 404, token)
                    ELSE Respond([q EXCEPT !.id = (CHOOSE l \in found : TRUE).claimId], 200, token))
    /\ UNCHANGED <<clientVars, dbVars, sideVars>>

\* GET /api/claims/[id]/pdf: prisma.claim.findUnique
PdfFindClaim(r, id) ==
    /\ CanArrive(r)
    /\ LET q == [IdleReq EXCEPT !.kind = "pdf", !.id = id]
       IN SetReq(r, IF dbClaims[id] = NoRow THEN Respond(q, 404, 0)
                    ELSE [q EXCEPT !.pc = "findLink"])
    /\ UNCHANGED <<clientVars, dbVars, sideVars>>

\* "Get or create share link": prisma.shareLink.findUnique
PdfFindLink(r) ==
    /\ reqs[r].kind = "pdf" /\ reqs[r].pc = "findLink"
    /\ LET shareLink == FindLink(dbLinks, reqs[r].id)
       IN SetReq(r, IF shareLink # NoLink THEN Respond(reqs[r], 200, shareLink.token)
                    ELSE [reqs[r] EXCEPT !.pc = "create"])
    /\ UNCHANGED <<clientVars, dbVars, sideVars>>

\* prisma.shareLink.create, then the document is rendered with the link
PdfCreate(r) ==
    /\ reqs[r].kind = "pdf" /\ reqs[r].pc = "create"
    /\ IF CanInsertLink(dbClaims, dbLinks, reqs[r].id)
       THEN /\ dbLinks' = dbLinks \cup {MkLink(nextToken + 1, reqs[r].id)}
            /\ nextToken' = nextToken + 1
            /\ SetReq(r, Respond(reqs[r], 200, nextToken + 1))
       ELSE /\ SetReq(r, Respond(reqs[r], 500, 0))
            /\ UNCHANGED <<dbLinks, nextToken>>
    /\ UNCHANGED <<clientVars, dbClaims, itemVars, sideVars>>

\* PATCH /api/claims/[id]: prisma.claim.update; a missing record throws: 500
ClaimPatch(r, id, data) ==
    /\ CanArrive(r)
    /\ LET q == [IdleReq EXCEPT !.kind = "patch", !.id = id]
       IN IF dbClaims[id] # NoRow
          THEN /\ dbClaims' = [dbClaims EXCEPT ![id] = PatchRow(@, data)]
               /\ SetReq(r, Respond(q, 200, 0))
          ELSE /\ SetReq(r, Respond(q, 500, 0))
               /\ UNCHANGED dbClaims
    /\ UNCHANGED <<clientVars, dbLinks, nextToken, itemVars, sideVars>>

\* DELETE /api/claims/[id]: prisma.claim.findUnique
ClaimDeleteFind(r, id) ==
    /\ CanArrive(r)
    /\ LET q == [IdleReq EXCEPT !.kind = "delete", !.id = id]
       IN SetReq(r, IF dbClaims[id] = NoRow THEN Respond(q, 404, 0)
                    ELSE [q EXCEPT !.pc = "delete"])
    /\ UNCHANGED <<clientVars, dbVars, sideVars>>

\* prisma.claim.delete; the foreign keys cascade
ClaimDeleteDelete(r) ==
    /\ reqs[r].kind = "delete" /\ reqs[r].pc = "delete"
    /\ IF dbClaims[reqs[r].id] # NoRow
       THEN /\ dbClaims' = [dbClaims EXCEPT ![reqs[r].id] = NoRow]
            /\ dbLinks' = CascadeLinks(dbLinks, reqs[r].id)
            /\ dbItems' = CascadeItems(dbItems, reqs[r].id)
            /\ dbAttachments' = CascadeAttachments(dbAttachments, dbItems')
            /\ SetReq(r, Respond(reqs[r], 200, 0))
       ELSE /\ SetReq(r, Respond(reqs[r], 500, 0))
            /\ UNCHANGED <<dbClaims, dbLinks, itemVars>>
    /\ UNCHANGED <<clientVars, nextToken, sideVars>>

\* POST /api/claims/[id]/items/[itemId]/attachments: prisma.item.findFirst
AttachPostFindItem(r, id, itemId) ==
    /\ CanArrive(r)
    /\ LET q == [IdleReq EXCEPT !.kind = "attach", !.id = id, !.item = itemId]
       IN SetReq(r, IF MkItemRow(itemId, id) \notin dbItems THEN Respond(q, 404, 0)
                    ELSE [q EXCEPT !.pc = "create"])
    /\ UNCHANGED <<clientVars, dbVars, sideVars>>

\* the file is uploaded, then prisma.attachment.create; a violation of the
\* foreign key throws and is caught: 500
AttachPostCreate(r) ==
    /\ reqs[r].kind = "attach" /\ reqs[r].pc = "create"
    /\ IF \E i \in dbItems : i.id = reqs[r].item
       THEN /\ dbAttachments' = dbAttachments \cup {[t |-> "attachment", id |-> r, itemId |-> reqs[r].item]}
            /\ SetReq(r, Respond(reqs[r], 201, 0))
       ELSE /\ SetReq(r, Respond(reqs[r], 500, 0))
            /\ UNCHANGED dbAttachments
    /\ UNCHANGED <<clientVars, dbClaims, dbLinks, nextToken, dbItems, sideVars>>

NextServer ==
    \/ \E r \in ReqIds, id \in ShareIds : SharePostFindClaim(r, id)
    \/ \E r \in ReqIds : SharePostFindLink(r)
    \/ \E r \in ReqIds : SharePostCreate(r)
    \/ \E r \in ReqIds, id \in ShareIds : ShareGet(r, id)
    \/ \E r \in ReqIds, id \in ShareIds : ShareDeleteFindLink(r, id)
    \/ \E r \in ReqIds : ShareDeleteDelete(r)
    \/ \E r \in ReqIds, token \in 1..MaxReq : PublicGet(r, token)
    \/ \E r \in ReqIds, id \in ShareIds : PdfFindClaim(r, id)
    \/ \E r \in ReqIds : PdfFindLink(r)
    \/ \E r \in ReqIds : PdfCreate(r)
    \/ \E r \in ReqIds, id \in ShareIds, data \in UpdateInputs : ClaimPatch(r, id, data)
    \/ \E r \in ReqIds, id \in ShareIds : ClaimDeleteFind(r, id)
    \/ \E r \in ReqIds : ClaimDeleteDelete(r)

SpecServer == Init /\ [][NextServer]_vars

\* the requests that create and delete what a claim owns
NextCascade ==
    \/ \E r \in ReqIds, id \in ShareIds : SharePostFindClaim(r, id)
    \/ \E r \in ReqIds : SharePostFindLink(r)
    \/ \E r \in ReqIds : SharePostCreate(r)
    \/ \E r \in ReqIds, id \in ShareIds, itemId \in {"i1", "i2"} : AttachPostFindItem(r, id, itemId)
    \/ \E r \in ReqIds : AttachPostCreate(r)
    \/ \E r \in ReqIds, id \in ServerIds : ClaimDeleteFind(r, id)
    \/ \E r \in ReqIds : ClaimDeleteDelete(r)

SpecCascade == Init /\ [][NextCascade]_vars

\* ------------------------------------------------------------------------
\* Migration script: HEIC attachments to JPEG
\* ------------------------------------------------------------------------
\* the endings that toLowerCase() turns into .heic or .heif
HeicExts == {".heic", ".HEIC", ".heif", ".HEIF"}

\* `${R2_PUBLIC_DOMAIN}/${key}`
GetPublicUrl(key) == [domain |-> "R2_PUBLIC_DOMAIN", key |-> key]

IsHeicFile(url, filename, mimeType) ==
    \/ url.key.ext \in HeicExts
    \/ filename.ext \in HeicExts
    \/ mimeType \in {"image/heic", "image/heif"}

IsAlreadyConverted(url, mimeType) ==
    \/ url.key.ext = "-converted.jpg"
    \/ (mimeType = "image/jpeg" /\ ~IsHeicFile(url, MkName("", ""), ""))

\* replace(/\.heic$/i, "-converted.jpg").replace(/\.heif$/i, "-converted.jpg")
GenerateConvertedKey(heicKey) ==
    IF heicKey.ext \in HeicExts THEN MkName(heicKey.stem, "-converted.jpg") ELSE heicKey

\* rows the upload route can have written: a HEIC photo stored before the
\* route converted, a HEIC file whose name has no extension (the key ends
\* with what follows the last dot of the name, or with the name), a JPEG
\* whose display name still ends in .HEIC, and a JPEG
AttachmentFixture ==
    LET \* a row of table Attachment, as far as the script reads and writes it
        MkAttachmentRow(id, key, filename, mimeType) ==
            [id |-> id, url |-> GetPublicUrl(key), thumbnailUrl |-> NullStr,
             filename |-> filename, publicId |-> key, mimeType |-> mimeType,
             format |-> "heic"]
    IN
    {MkAttachmentRow(1, MkName("k1", ".heic"), MkName("photo", ".heic"), "image/heic"),
     MkAttachmentRow(2, MkName("k2.scan", ""), MkName("scan", ""), "image/heic"),
     MkAttachmentRow(3, MkName("k3", ".jpg"), MkName("old", ".HEIC"), "image/jpeg"),
     MkAttachmentRow(4, MkName("k4", ".jpg"), MkName("new", ".jpg"), "image/jpeg")}

\* publicId || getKeyFromUrl(url)
HeicKey(attachment) ==
    IF attachment.publicId # MkName("", "") THEN attachment.publicId ELSE attachment.url.key

\* the attachment the loop of migrate() is at
Current == mig.attachments[mig.i]
\* the loop moves on, counting the attachment
Counted(field) ==
    [mig EXCEPT !.pc = "loop", !.i = @ + 1, !.result[field] = @ + 1,
                !.jpegKey = MkName("", ""), !.newThumbnailUrl = NullStr]

\* the script starts against a database and a bucket; prisma.attachment.findMany
\* selects the attachments, in an order the query does not fix
MigrateStart(dryRun, table, attachments) ==
    /\ mig.pc = "idle"
    /\ LET found == {row \in table : \/ row.url.key.ext \in HeicExts
                                     \/ row.filename.ext \in HeicExts
                                     \/ row.mimeType \in {"image/heic", "image/heif"}}
       IN /\ {attachments[n] : n \in DOMAIN attachments} = found
          /\ Len(attachments) = Cardinality(found)
    /\ rows' = table
    \* each row's file is stored under the row's key
    /\ bucket' = [key \in {row.publicId : row \in table} |-> "original"]
    /\ mig' = [IdleMig EXCEPT !.pc = "loop", !.DRY_RUN = dryRun, !.attachments = attachments,
                              !.i = 1]
    /\ UNCHANGED <<clientVars, dbVars, reqs, dialog>>

\* idempotency check of the loop
MigrateSkip ==
    /\ mig.pc = "loop" /\ mig.i <= Len(mig.attachments)
    /\ IsAlreadyConverted(Current.url, Current.mimeType)
    /\ mig' = Counted("skipped")
    /\ UNCHANGED <<clientVars, dbVars, reqs, bucket, rows, dialog>>

\* migrateAttachment in dry-run mode: logs and returns
MigrateDryRun ==
    /\ mig.pc = "loop" /\ mig.i <= Len(mig.attachments)
    /\ ~IsAlreadyConverted(Current.url, Current.mimeType)
    /\ mig.DRY_RUN
    /\ mig' = Counted("converted")
    /\ UNCHANGED <<clientVars, dbVars, reqs, bucket, rows, dialog>>

\* migrateAttachment: download, convert, upload the JPEG; a step that throws
\* ends the attachment as failed
MigrateUpload(ok) ==
    /\ mig.pc = "loop" /\ mig.i <= Len(mig.attachments)
    /\ ~IsAlreadyConverted(Current.url, Current.mimeType)
    /\ ~mig.DRY_RUN
    /\ LET heicKey == HeicKey(Current)
           jpegKey == GenerateConvertedKey(heicKey)
       IN IF ok /\ heicKey \in DOMAIN bucket
          THEN /\ bucket' = (jpegKey :> "jpeg") @@ bucket
               /\ mig' = [mig EXCEPT !.pc = "thumbnail", !.jpegKey = jpegKey]
          ELSE /\ mig' = Counted("failed")
               /\ UNCHANGED bucket
    /\ UNCHANGED <<clientVars, dbVars, reqs, rows, dialog>>

\* the thumbnail is generated and uploaded; when that throws the main image
\* serves as thumbnail
MigrateThumbnail(ok) ==
    /\ mig.pc = "thumbnail"
    /\ LET newUrl == GetPublicUrl(mig.jpegKey)
           \* jpegKey.replace("-converted.jpg", "-converted-thumb.jpg")
           thumbnailKey == IF mig.jpegKey.ext = "-converted.jpg"
                           THEN MkName(mig.jpegKey.stem, "-converted-thumb.jpg")
                           ELSE mig.jpegKey
       IN IF ok
          THEN /\ bucket' = (thumbnailKey :> "thumbnail") @@ bucket
               /\ mig' = [mig EXCEPT !.pc = "update",
                                     !.newThumbnailUrl = GetPublicUrl(thumbnailKey)]
          ELSE /\ mig' = [mig EXCEPT !.pc = "update", !.newThumbnailUrl = newUrl]
               /\ UNCHANGED bucket
    /\ UNCHANGED <<clientVars, dbVars, reqs, rows, dialog>>

\* prisma.attachment.update
MigrateUpdate(ok) ==
    /\ mig.pc = "update"
    /\ IF ok
       THEN /\ rows' = {IF row.id # Current.id THEN row
                        ELSE [row EXCEPT !.url = GetPublicUrl(mig.jpegKey),
                                         !.thumbnailUrl = mig.newThumbnailUrl,
                                         !.filename =
                                             \* convertFilename
                                             IF Current.filename.ext \in HeicExts
                                             THEN MkName(Current.filename.stem, ".jpg")
                                             ELSE Current.filename,
                                         !.mimeType = "image/jpeg",
                                         !.publicId = mig.jpegKey,
                                         !.format = "jpg"] : row \in rows}
            /\ mig' = Counted("converted")
       ELSE /\ mig' = Counted("failed")
            /\ UNCHANGED rows
    /\ UNCHANGED <<clientVars, dbVars, reqs, bucket, dialog>>

NextMigrate ==
    \/ \E dryRun \in BOOLEAN, table \in SUBSET AttachmentFixture,
          attachments \in UNION {[1..k -> AttachmentFixture] : k \in 0..3} :
         MigrateStart(dryRun, table, attachments)
    \/ MigrateSkip
    \/ MigrateDryRun
    \/ \E ok \in BOOLEAN : MigrateUpload(ok)
    \/ \E ok \in BOOLEAN : MigrateThumbnail(ok)
    \/ \E ok \in BOOLEAN : MigrateUpdate(ok)

SpecMigrate == Init /\ [][NextMigrate]_vars

\* ------------------------------------------------------------------------
\* Confirmation dialog
\* ------------------------------------------------------------------------
MaxConfirm == 2

\* the confirmationText prop of the dialog
ConfirmationText(d) == IF d = "delete" THEN "delete this claim" ELSE Undef
\* the button is enabled whatever was typed
IsConfirmEnabledAnyInput(d) == TRUE

IsConfirmEnabled(d) ==
    dialog[d].step = 1 \/ dialog[d].inputValue = ConfirmationText(d)

\* the effect on [open] has run: React runs pending effects before it handles
\* the next event
EffectsFlushed(d) == dialog[d].open \/ (dialog[d].step = 1 /\ dialog[d].inputValue = "")

\* the parent sets open (setShowDeleteConfirm(true), setShowCancelConfirm(true))
DialogOpen(d) ==
    /\ ~dialog[d].open /\ EffectsFlushed(d)
    /\ dialog' = [dialog EXCEPT ![d].open = TRUE]
    /\ UNCHANGED <<clientVars, dbVars, reqs, bucket, rows, mig>>

\* useEffect on [open]: reset when the dialog is closed
DialogResetEffect(d) ==
    /\ ~EffectsFlushed(d)
    /\ dialog' = [dialog EXCEPT ![d].step = 1, ![d].inputValue = ""]
    /\ UNCHANGED <<clientVars, dbVars, reqs, bucket, rows, mig>>

\* handleConfirm: the confirm button when enabled, or Enter in the input
HandleConfirm(d) ==
    /\ dialog[d].open /\ IsConfirmEnabled(d)
    /\ IF ConfirmationText(d) # Undef /\ dialog[d].step = 1
       THEN dialog' = [dialog EXCEPT ![d].step = 2]
       ELSE /\ dialog[d].confirms < MaxConfirm
            /\ dialog' = [dialog EXCEPT ![d].confirms = @ + 1, ![d].open = FALSE]
    /\ UNCHANGED <<clientVars, dbVars, reqs, bucket, rows, mig>>

\* handleCancel: the cancel button, labelled Back at step 2
HandleCancel(d) ==
    /\ dialog[d].open
    /\ IF dialog[d].step = 2
       THEN dialog' = [dialog EXCEPT ![d].step = 1, ![d].inputValue = ""]
       ELSE dialog' = [dialog EXCEPT ![d].open = FALSE]
    /\ UNCHANGED <<clientVars, dbVars, reqs, bucket, rows, mig>>

\* the Dialog closes itself (Escape, click outside): onOpenChange(false)
DialogDismiss(d) ==
    /\ dialog[d].open
    /\ dialog' = [dialog EXCEPT ![d].open = FALSE]
    /\ UNCHANGED <<clientVars, dbVars, reqs, bucket, rows, mig>>

\* onChange of the input of step 2
SetInputValue(d, value) ==
    /\ dialog[d].open /\ dialog[d].step = 2
    /\ dialog[d].inputValue # value
    /\ dialog' = [dialog EXCEPT ![d].inputValue = value]
    /\ UNCHANGED <<clientVars, dbVars, reqs, bucket, rows, mig>>

NextDialog ==
    \/ \E d \in DOMAIN dialog : DialogOpen(d)
    \/ \E d \in DOMAIN dialog : DialogResetEffect(d)
    \/ \E d \in DOMAIN dialog : HandleConfirm(d)
    \/ \E d \in DOMAIN dialog : HandleCancel(d)
    \/ \E d \in DOMAIN dialog : DialogDismiss(d)
    \* what the user can have typed
    \/ \E d \in DOMAIN dialog,
          value \in {"", "delete this", "Delete This Claim", "delete this claim"} :
         SetInputValue(d, value)

SpecDialog == Init /\ [][NextDialog]_vars

\* ------------------------------------------------------------------------
\* Properties of the client cache
\* ------------------------------------------------------------------------
\* the keys a mutation snapshots and writes in onMutate
TouchedKeys(mut) ==
    CASE mut.kind = "create" -> {ListKey}
      [] mut.kind = "update" -> {DetailKey(mut.id)}
      [] mut.kind = "delete" -> {ListKey, DetailKey(mut.id)}
      [] mut.kind = "shareRevoke" -> {ShareKey(mut.id)}
      [] OTHER -> {}

Fails(m) == muts[m].pc = "inflight" /\ muts'[m].pc = "error"
Succeeds(m) == muts[m].pc = "inflight" /\ muts'[m].pc = "success"

\* C1 (rollback exactness): when the network call of a mutation fails, every
\* cache key the mutation touched holds, after onError, the value of the
\* snapshot taken in onMutate, also when that snapshot was "absent" or the
\* no-link value.
C1_RollbackExact ==
    [][\A m \in MutIds :
         Fails(m) => \A k \in TouchedKeys(muts[m]) : cache'[k] = IF k = ListKey THEN muts[m].prevList ELSE muts[m].prevItem]_vars

\* C2 (stale-reconciliation rejection): when mutation A settles (success or
\* failure) while a mutation B that wrote the same key after A is still in
\* flight, A's reconciliation leaves what B's speculative write established
\* in the cache as it is (two creates that drew the same temporary
\* identifier are left aside: the placeholder of one is then the other's).
C2_StaleReconciliationRejected ==
    [][\A a, b \in MutIds :
         LET \* what a mutation's speculative write established, read from a cache c
             MutView(mut, c) ==
                 CASE mut.kind = "create" -> <<mut.temp \in IdsOf(c[ListKey])>>
                   [] mut.kind = "update" -> <<c[DetailKey(mut.id)]>>
                   [] mut.kind = "delete" -> <<mut.id \in IdsOf(c[ListKey]), c[DetailKey(mut.id)]>>
                   [] mut.kind = "shareRevoke" -> <<c[ShareKey(mut.id)]>>
                   [] OTHER -> <<>>
         IN
         ( /\ (Fails(a) \/ Succeeds(a))
           /\ muts[b].pc = "inflight"
           /\ muts[a].seq < muts[b].seq
           /\ TouchedKeys(muts[a]) \cap TouchedKeys(muts[b]) # {}
           /\ muts[a].kind = "create" => muts[a].temp # muts[b].temp )
            => MutView(muts[b], cache') = MutView(muts[b], cache)]_vars

\* C3 (identifier promotion): when a create-claim mutation with temporary
\* identifier T succeeds with the server's claim S, the claims list contains
\* S right after onSuccess, and from then on no list entry carries T.
C3_IdentifierPromotion ==
    [][\A m \in MutIds :
         (muts'[m].kind = "create" /\ muts'[m].pc = "success")
         => /\ muts'[m].temp \notin IdsOf(cache'[ListKey])
            /\ Succeeds(m) => muts'[m].resp.id \in IdsOf(cache'[ListKey])]_vars

\* C4 (no residue after rollback): after a failed mutation whose snapshots were
\* loaded values has been rolled back, each key it touched on which no
\* mutation is in flight any more holds the server's value, as long as no
\* mutation has changed the server (every fetched value is then that value).
C4_RollbackServerConfirmed ==
    [][\A m \in MutIds :
         Fails(m) =>
           \A k \in TouchedKeys(muts[m]) :
             ( /\ Truthy(IF k = ListKey THEN muts[m].prevList ELSE muts[m].prevItem)
               /\ \A id \in ServerIds :
                    dbClaims'[id] = IF id \in InitialIds THEN InitialRow(id) ELSE NoRow
               /\ \A x \in MutIds : muts'[x].pc = "inflight" => k \notin TouchedKeys(muts'[x]) )
             => cache'[k] = QueryFn(k, GetResponse(k, dbClaims, dbLinks))]_vars

\* C5 (delete then rollback): while a delete is in flight the claim is in no
\* list cache and its detail key is absent; when the call fails the claim is
\* back in the list at the index it had in the snapshot and a detail value
\* that was present is back.
C5_DeleteThenRollback ==
    [][\A m \in MutIds :
         muts'[m].kind = "delete" =>
           /\ muts'[m].pc = "inflight" =>
                /\ muts'[m].id \notin IdsOf(cache'[ListKey])
                /\ cache'[DetailKey(muts'[m].id)] = Absent
           /\ Fails(m) =>
                /\ muts[m].prevList # Absent =>
                     \A i \in 1..Len(muts[m].prevList.items) :
                        muts[m].prevList.items[i].id = muts[m].id =>
                          /\ cache'[ListKey] # Absent
                          /\ i <= Len(cache'[ListKey].items)
                          /\ cache'[ListKey].items[i].id = muts[m].id
                /\ muts[m].prevItem # Absent =>
                     cache'[DetailKey(muts[m].id)] = muts[m].prevItem]_vars

\* C6 (commit of an update): after an update-claim mutation that wrote a
\* speculative detail value succeeds, the detail key of the claim holds the
\* claim the server returned.
C6_UpdateCommitsServerValue ==
    [][\A m \in MutIds :
         (muts[m].kind = "update" /\ Succeeds(m) /\ muts[m].prevItem # Absent)
         => cache'[DetailKey(muts[m].id)] = muts'[m].resp]_vars

\* C7 (cancel before write): when a mutation starts, no background fetch stays
\* in flight for any key the mutation writes, speculatively or at
\* reconciliation.
C7_CancelsEveryWrittenKey ==
    [][\A m \in MutIds :
         (muts[m].pc = "idle" /\ muts'[m].pc # "idle")
         => LET mut == muts'[m]
                \* the keys a mutation writes in onMutate, onSuccess or onError
                WrittenKeys ==
                    CASE mut.kind = "update" -> {DetailKey(mut.id), ListKey}
                      [] mut.kind = "shareCreate" -> {ShareKey(mut.id)}
                      [] OTHER -> TouchedKeys(mut)
            IN \A k \in WrittenKeys : fetching'[k] = NoFetch]_vars

\* C11 (one treatment of failures): whenever the network call of a mutation
\* ends in a network failure, in a non-2xx status (whatever the body) or in a
\* malformed response body, the mutation runs its onError rollback and
\* rejects; it never commits.
C11_FailuresNeverCommit ==
    [][\A m \in MutIds :
         \A r \in {x \in Responses : x.status = 0 \/ ~Ok(x) \/ x.body = "malformed"} :
             LET \* the response r of the network call of m is handled in this step
                 receives ==
                     \/ CreateSuccess(m, r) \/ CreateError(m, r)
                     \/ UpdateSuccess(m, r) \/ UpdateError(m, r)
                     \/ DeleteSuccess(m, r) \/ DeleteError(m, r)
                     \/ ShareCreateSuccess(m, r) \/ ShareCreateError(m, r)
                     \/ RevokeSuccess(m, r) \/ RevokeError(m, r)
             IN (muts[m].pc = "inflight" /\ receives) => Fails(m)]_vars

\* C12 (no failure is dropped): every mutation that has failed with a network
\* or server failure has been observed by its call site, which has shown a
\* failure notification.
C12_FailureNotified ==
    \A m \in MutIds : muts[m].pc = "error" => muts[m].toast = "error"

\* C13 (local precondition failures): when a handler is asked to save an item
\* whose title is empty or only whitespace, or to reorder an empty set, it
\* rejects at once: no request is issued and no cache key is modified.
C13_PreconditionFailureIsLocal ==
    [][\A m \in MutIds :
         LET mut == muts'[m]
             preconditionFails ==
                 \/ mut.kind \in {"itemCreate", "itemUpdate"} /\ Trim(mut.data.title) = <<>>
                 \/ mut.kind = "reorder" /\ mut.data.items = <<>>
             invoked == muts[m].pc = "idle" /\ mut.pc # "idle" /\ mut.kind \in ItemKinds
         IN (invoked /\ preconditionFails)
         => /\ muts'[m].pc = "rejected"
            /\ cache' = cache
            /\ fetching' = fetching]_vars

\* the order value of each item of a sequence, as a set of pairs
PayloadMap(items) == {<<items[i].id, items[i].order>> : i \in 1..Len(items)}

C14_NoYieldBeforeSpeculate ==
    [][\A m \in MutIds :
         muts[m].pc \in {"onMutate1", "onMutate"} => muts'[m] # muts[m]]_vars

\* C16 (partial patch): the speculative transform of update-claim leaves every
\* field that is absent from the input at its cached value, gives a field it
\* changes the value of the input, leaves the parts of the detail object that
\* cannot be patched as they are, and writes nothing when the detail key is
\* absent.
C16_PartialPatch ==
    [][\A m \in MutIds :
         (muts[m].kind = "update" /\ muts[m].pc = "onMutate" /\ muts'[m].pc = "inflight") =>
           LET k == DetailKey(muts[m].id)
               data == muts[m].data
           IN IF cache[k] = Absent THEN cache'[k] = Absent
              ELSE /\ cache'[k].t = cache[k].t
                   /\ cache'[k].id = cache[k].id
                   /\ cache'[k].claimantId = cache[k].claimantId
                   /\ \A f \in {"claimNumber", "customer", "status"} :
                        /\ data[f] = Undef => cache'[k][f] = cache[k][f]
                        /\ cache'[k][f] # cache[k][f] => cache'[k][f] = data[f]]_vars

\* an update that names only some fields has just been applied to a loaded
\* detail object: a named field changed, the others are as they were
C16_Witness ==
    \E m \in MutIds :
      /\ muts[m].kind = "update" /\ muts[m].pc = "inflight"
      /\ muts[m].prevItem # Absent
      /\ muts[m].data.claimNumber = Undef
      /\ cache[DetailKey(muts[m].id)] # muts[m].prevItem
      /\ cache[DetailKey(muts[m].id)].claimNumber = muts[m].prevItem.claimNumber

\* C22 (create placement): the speculative transform of create-claim puts
\* the placeholder, with its temporary identifier, at index 0 of the claims
\* list and leaves every claim listed before present, unchanged and in the
\* same order; on success the server's claim takes the placeholder's position.
C22_CreatePlacement ==
    [][\A m \in MutIds :
         LET old == IF cache[ListKey] = Absent THEN <<>> ELSE cache[ListKey].items
             new == cache'[ListKey].items
         IN /\ (muts[m].kind = "create" /\ muts[m].pc = "onMutate" /\ muts'[m].pc = "inflight")
               => /\ new[1].id = muts'[m].temp
                  /\ new[1].claimantId = "temp"
                  /\ Tail(new) = old
            /\ (muts[m].kind = "create" /\ Succeeds(m))
               => /\ Len(new) = Len(old)
                  /\ \A i \in 1..Len(old) :
                       old[i].id = muts[m].temp => new[i] = muts'[m].resp
      ]_vars

\* a create on a loaded list has succeeded and the server's claim is at the
\* head of the list, before the claims that were listed
C22_Witness ==
    \E m \in MutIds :
      /\ muts[m].kind = "create" /\ muts[m].pc = "success"
      /\ cache[ListKey] # Absent
      /\ Len(cache[ListKey].items) = 3
      /\ cache[ListKey].items[1] = muts[m].resp
      /\ cache[ListKey].items[1].id \in ServerIds

\* ------------------------------------------------------------------------
\* Properties of the filter
\* ------------------------------------------------------------------------
\* a query of white space only, or of nothing
Blank(q) == \A i \in 1..Len(q) : q[i] = " "

\* C17: the filtered list is exactly the claims of the list, in their
\* order, for which (the query is blank or occurs case-insensitively in the
\* claim number, the claimant name, the customer or the adjustor name) and
\* (no status is selected or the claim's status is selected); an absent list
\* gives the empty list and a null field matches nothing.
C17_FilterDerivation ==
    LET claims == cache[ListKey]
        filteredClaims == UseClaimsFilter.filteredClaims
        q == debouncedSearch
        S == {selectedStatuses[i] : i \in 1..Len(selectedStatuses)}
        SameLetter(a, b) == a = b \/ {a, b} = {"a", "A"} \/ {a, b} = {"b", "B"}
        OccursIn(field) ==
            /\ field # NullStr
            /\ \E offset \in 0..(Len(field.chars) - Len(q)) :
                   \A i \in 1..Len(q) : SameLetter(field.chars[offset + i], q[i])
        \* the claims the filter is to keep
        Selected(claim) ==
            /\ \/ Blank(q)
               \/ \E field \in {claim.claimNumber, claim.claimantName, claim.customer,
                                claim.adjustorName} : OccursIn(field)
            /\ S = {} \/ claim.status \in S
    IN IF claims = Absent THEN filteredClaims = <<>>
       ELSE filteredClaims = SelectSeq(claims.items, Selected)

\* a query with a capital and a status are set and the filter keeps some of
\* the claims, among them none of those whose only match would be a null field
C17_Witness ==
    /\ cache[ListKey] # Absent
    /\ Len(cache[ListKey].items) = 3
    /\ debouncedSearch = <<"A">>
    /\ selectedStatuses = <<"APPROVED">>
    /\ Len(UseClaimsFilter.filteredClaims) = 1
    /\ UseClaimsFilter.filteredClaims[1].customer = NullStr

\* C18: isEmpty holds iff the filtered list is empty; isFiltered holds iff
\* the query is not blank or a status is selected; activeFilterCount is the
\* number of those two criteria that are active, so isFiltered holds iff
\* activeFilterCount > 0.
C18_FilterMetadata ==
    LET r == UseClaimsFilter
        active == {c \in {"text", "status"} :
                      \/ c = "text" /\ ~Blank(debouncedSearch)
                      \/ c = "status" /\ Len(selectedStatuses) > 0}
    IN /\ r.isEmpty <=> r.filteredClaims = <<>>
       /\ r.isFiltered <=> (~Blank(debouncedSearch) \/ Len(selectedStatuses) > 0)
       /\ r.activeFilterCount = Cardinality(active)
       /\ r.isFiltered <=> r.activeFilterCount > 0

\* both criteria are active, with two statuses ticked, and nothing is left
C18_Witness ==
    /\ cache[ListKey] # Absent
    /\ Len(cache[ListKey].items) = 3
    /\ Len(selectedStatuses) = 2
    /\ ~Blank(debouncedSearch)
    /\ UseClaimsFilter.activeFilterCount = 2
    /\ UseClaimsFilter.isEmpty

\* ------------------------------------------------------------------------
\* Properties of the share-link query
\* ------------------------------------------------------------------------
\* the fetch of key k settles in this step with a response of this status

C20_CacheHoldsReturnedLink ==
    [][\A m \in MutIds :
         (muts[m].kind = "shareCreate" /\ Succeeds(m)) =>
             LET id == muts[m].id
             IN /\ cache'[ShareKey(id)] = muts'[m].resp
                /\ muts'[m].resp \in LinksOf(dbLinks', id)
                /\ FindLink(dbLinks, id) # NoLink => muts'[m].resp = FindLink(dbLinks, id)
      ]_vars

\* ------------------------------------------------------------------------
\* Properties of the server
\* ------------------------------------------------------------------------
ShareRequests(id) == {r \in ReqIds : reqs[r].kind = "share" /\ reqs[r].id = id}

\* C8 (share-link idempotence): when the only requests the server has received
\* are share-create requests for one claim and at least two of them have been
\* answered, sequentially or racing, all of them succeeded with the same token
\* and the claim has exactly one ShareLink record.
C8_ShareCreateIdempotent ==
    \A id \in ShareIds :
      ( /\ \A r \in ReqIds : reqs[r].pc \in {"idle", "done"}
        /\ \A r \in ReqIds : reqs[r].pc = "done" => r \in ShareRequests(id)
        /\ Cardinality(ShareRequests(id)) >= 2 )
      => /\ \A r \in ShareRequests(id) : reqs[r].status \in {200, 201}
         /\ \A r1, r2 \in ShareRequests(id) : reqs[r1].token = reqs[r2].token
         /\ Cardinality(LinksOf(dbLinks, id)) = 1

\* C9 (one link per existing claim): in every server state each claim has at
\* most one ShareLink record and every ShareLink record refers to a claim that
\* exists.
C9_OneLinkPerExistingClaim ==
    /\ \A id \in ServerIds : Cardinality(LinksOf(dbLinks, id)) <= 1
    /\ \A l \in dbLinks : dbClaims[l.claimId] # NoRow

\* a second create for a claim was refused by the unique index while the
\* claim's link exists
C9_Witness ==
    \E r \in ReqIds :
      /\ reqs[r].kind \in {"share", "pdf"}
      /\ reqs[r].pc = "done" /\ reqs[r].status = 500
      /\ LinksOf(dbLinks, reqs[r].id) # {}

StepOf(kinds, id, pc) ==
    \E r \in ReqIds :
      /\ reqs[r].kind \in kinds /\ reqs[r].id = id
      /\ reqs[r].pc = pc /\ reqs'[r].pc = "done"

\* C10 as the spec states it: a ShareLink record of a claim comes into
\* existence only in the create step of a share-create request for that claim,
\* and goes only in the delete step of a revoke or of a deletion of that claim.
C10_OnlyShareCreateMakesLink ==
    [][\A id \in ServerIds :
         /\ ~(LinksOf(dbLinks', id) \subseteq LinksOf(dbLinks, id)) => StepOf({"share"}, id, "create")
         /\ ~(LinksOf(dbLinks, id) \subseteq LinksOf(dbLinks', id)) => StepOf({"revoke", "delete"}, id, "delete")]_vars

\* C10 (amended): a ShareLink record of a claim comes into existence only in
\* the create step of a share-create request or of a PDF export of that claim,
\* and goes only in the delete step of a revoke or of a deletion of that claim;
\* reading or updating a claim creates none.
C10_LinkLifecycle ==
    [][\A id \in ServerIds :
         /\ ~(LinksOf(dbLinks', id) \subseteq LinksOf(dbLinks, id)) => StepOf({"share", "pdf"}, id, "create")
         /\ ~(LinksOf(dbLinks, id) \subseteq LinksOf(dbLinks', id)) => StepOf({"revoke", "delete"}, id, "delete")]_vars

\* a claim nobody asked to share has a link, made by a PDF export, and the
\* public page answers for its token
C10_Witness ==
    \E r, p \in ReqIds :
      /\ reqs[r].kind = "pdf" /\ reqs[r].pc = "done" /\ reqs[r].status = 200
      /\ ShareRequests(reqs[r].id) = {}
      /\ MkLink(reqs[r].token, reqs[r].id) \in dbLinks
      /\ reqs[p].kind = "public" /\ reqs[p].status = 200 /\ reqs[p].token = reqs[r].token

\* C20 (share-link create): a share-create request that is answered while the
\* claim has a link is answered, without error, with that link.
C20_ExistingLinkReturned ==
    [][\A r \in ReqIds :
         LET existingLink == FindLink(dbLinks, reqs'[r].id)
             answered == reqs[r].pc # "done" /\ reqs'[r].pc = "done" /\ reqs'[r].kind = "share"
         IN answered /\ existingLink # NoLink =>
                reqs'[r].status = 200 /\ reqs'[r].token = existingLink.token
      ]_vars

\* C21 (cascade ownership): in every server state each Item refers to a
\* Claim that exists, each Attachment to an Item that exists and each
\* ShareLink to a Claim that exists; when a DELETE of a claim succeeds, no
\* Item, Attachment or ShareLink that belonged to the claim is left; a DELETE
\* of a claim that does not exist is answered 404 and changes no table.
C21_CascadeOwnership ==
    /\ [](/\ \A i \in dbItems : dbClaims[i.claimId] # NoRow
          /\ \A a \in dbAttachments : \E i \in dbItems : i.id = a.itemId
          /\ \A l \in dbLinks : dbClaims[l.claimId] # NoRow)
    /\ [][\A r \in ReqIds :
            /\ (ClaimDeleteDelete(r) /\ reqs'[r].status = 200) =>
                 LET id == reqs[r].id
                     owned == {i.id : i \in {x \in dbItems : x.claimId = id}}
                 IN /\ dbClaims'[id] = NoRow
                    /\ \A i \in dbItems' : i.claimId # id
                    /\ \A a \in dbAttachments' : a.itemId \notin owned
                    /\ LinksOf(dbLinks', id) = {}
            /\ \A id \in ServerIds :
                 (ClaimDeleteFind(r, id) /\ dbClaims[id] = NoRow) =>
                     /\ reqs'[r].pc = "done" /\ reqs'[r].status = 404
                     /\ dbVars' = dbVars
       ]_vars

\* a claim was deleted after a file had been attached to its item and a link
\* made for it, nothing of it is left, and the next DELETE of it was answered
\* 404
C21_Witness ==
    \E r1, r2, r3 \in ReqIds :
      /\ reqs[r1].kind = "attach" /\ reqs[r1].status = 201 /\ reqs[r1].id = "c1"
      /\ reqs[r2].kind = "delete" /\ reqs[r2].status = 200 /\ reqs[r2].id = "c1"
      /\ reqs[r3].kind = "delete" /\ reqs[r3].status = 404 /\ reqs[r3].id = "c1"
      /\ dbItems = {MkItemRow("i2", "c2")}
      /\ dbAttachments = {}

\* C24 (non-destructive migration): while the script runs, the object each
\* selected attachment's original file was stored as is still in the bucket
\* with its original content; the converted image and the thumbnail are
\* written under keys different from every selected original's key and from
\* each other's; in dry-run mode no step writes to the bucket or to table
\* Attachment.
C24_NonDestructive ==
    /\ [](\A n \in DOMAIN mig.attachments :
             LET heicKey == HeicKey(mig.attachments[n])
             IN heicKey \in DOMAIN bucket /\ bucket[heicKey] = "original")
    /\ [][LET written == {key \in DOMAIN bucket' :
                             key \notin DOMAIN bucket \/ bucket'[key] # bucket[key]}
          IN /\ \A n \in DOMAIN mig.attachments : HeicKey(mig.attachments[n]) \notin written
             /\ mig.pc = "thumbnail" => mig.jpegKey \notin written
             /\ (mig.pc # "idle" /\ mig.DRY_RUN) => (bucket' = bucket /\ rows' = rows)
         ]_vars

\* C25 (reorder request): the request a reorder submits gives the item at
\* position i the order value i, counting from 0; it names each saved item of
\* the dragged list once and names no draft.
C25_ReorderRequest ==
    [][\A m \in MutIds :
         (muts[m].pc = "idle" /\ muts'[m].kind = "reorder") =>
           LET items == muts'[m].data.items
           IN /\ \A i \in 1..Len(items) : items[i].order = i - 1
              /\ {items[i].id : i \in 1..Len(items)} = ItemIdsOf(cache[ItemsKey])
              /\ Len(items) = Len(ItemsOf(cache[ItemsKey]))
              /\ \A i \in 1..Len(items) : items[i].id # "draft-0"]_vars

\* a reorder of three saved items is in flight with a request that moves
\* the first item to the end
C25_Witness ==
    \E m \in MutIds :
      /\ muts[m].kind = "reorder" /\ muts[m].pc = "inflight"
      /\ muts[m].data.items =
             <<[id |-> "i2", order |-> 0], [id |-> "i3", order |-> 1], [id |-> "i1", order |-> 2]>>

\* C26 (key independence): a step of an update, delete or share-link mutation
\* for claim X leaves the detail key, the list entry and the share-link key
\* of every other claim as they are, and a step of an update leaves the
\* sequence of ids of the claims list as it is.
C26_KeyIndependence ==
    [][\A m \in MutIds :
         LET mut == muts'[m]
             entry(c, Y) == IF c[ListKey] = Absent THEN {}
                            ELSE {c[ListKey].items[i] : i \in {j \in 1..Len(c[ListKey].items) :
                                                                 c[ListKey].items[j].id = Y}}
             idSequence(c) == IF c[ListKey] = Absent THEN <<>>
                              ELSE [i \in 1..Len(c[ListKey].items) |-> c[ListKey].items[i].id]
         IN (muts[m] # mut /\ mut.kind \in {"update", "delete", "shareCreate", "shareRevoke"}) =>
              /\ \A k \in Keys : (Len(k) = 2 /\ k[2] # mut.id) => cache'[k] = cache[k]
              /\ \A Y \in (IdsOf(cache[ListKey]) \cup IdsOf(cache'[ListKey])) \ {mut.id} :
                     entry(cache', Y) = entry(cache, Y)
              /\ mut.kind = "update" => idSequence(cache') = idSequence(cache)]_vars

\* C27 (speculation agrees with PATCH): when onMutate of an update writes the
\* detail key of a loaded claim, the patchable fields of the value it writes
\* are those the PATCH handler stores for the same input over the same prior
\* record: a field sent as null is cleared, a field left out is unchanged.
C27_SpeculationMatchesPatch ==
    [][\A m \in MutIds :
         LET k == DetailKey(muts[m].id)
             stored == PatchRow(cache[k], muts[m].data)
         IN (/\ muts[m].kind = "update" /\ muts[m].pc = "onMutate" /\ muts'[m].pc = "inflight"
             /\ cache[k] # Absent) =>
              /\ cache'[k].claimNumber = stored.claimNumber
              /\ cache'[k].customer = stored.customer
              /\ cache'[k].status = stored.status]_vars

\* C28 (temporary identifiers): two creates that are in flight at the same
\* time carry different temporary identifiers; the identifier a create takes
\* is the id of no claim in the list; the success of a create changes one
\* entry of the list, its own placeholder.
C28_TempIdsDistinct ==
    /\ [](\A m, n \in MutIds :
             (/\ m # n
              /\ muts[m].kind = "create" /\ muts[m].pc = "inflight"
              /\ muts[n].kind = "create" /\ muts[n].pc = "inflight") =>
                 muts[m].temp # muts[n].temp)
    /\ [][\A m \in MutIds :
            muts[m].kind = "create" =>
              /\ (muts[m].pc = "onMutate" /\ muts'[m].pc = "inflight") =>
                     muts'[m].temp \notin IdsOf(cache[ListKey])
              /\ (Succeeds(m) /\ cache[ListKey] # Absent) =>
                     LET old == cache[ListKey].items
                         new == cache'[ListKey].items
                     IN /\ Len(new) = Len(old)
                        /\ Cardinality({i \in 1..Len(old) : new[i] # old[i]}) <= 1
                        /\ \A i \in 1..Len(old) : new[i] # old[i] => old[i].id = muts[m].temp
         ]_vars

\* C29 as claimed: a non-blank query gives the same filtered list as the
\* query without its leading and trailing whitespace.
C29_WhitespaceInsensitive ==
    LET q == debouncedSearch
    IN ~Blank(q) =>
          FilteredClaims(cache[ListKey], q, selectedStatuses) =
              FilteredClaims(cache[ListKey], Trim(q), selectedStatuses)

\* C29 (surrounding whitespace): a query of whitespace alone filters like the
\* empty query; a non-blank query is matched as typed, so its filtered list
\* holds those claims of the filtered list of the trimmed query in which the
\* query itself, whitespace included, occurs.
C29_TrimOnlyWidens ==
    LET q == debouncedSearch
        kept(text) == FilteredClaims(cache[ListKey], text, selectedStatuses)
    IN /\ Blank(q) => kept(q) = kept(<<>>)
       /\ ~Blank(q) => kept(q) = SelectSeq(kept(Trim(q)), LAMBDA c : MatchesSearch(c, q))

\* the query "a " keeps one claim where "a" keeps more
C29_Witness ==
    /\ cache[ListKey] # Absent
    /\ debouncedSearch = <<"a", " ">>
    /\ selectedStatuses = <<>>
    /\ Len(FilteredClaims(cache[ListKey], debouncedSearch, selectedStatuses)) = 1
    /\ Len(FilteredClaims(cache[ListKey], <<"a">>, selectedStatuses)) > 1

\* C30 (two-step confirmation): in a dialog that requires a confirmation
\* text, onConfirm is called only at step 2 and only while the input equals
\* the text; confirm at step 1 only moves to step 2; back at step 2 returns to
\* step 1 and clears the input; a dialog that opens is at step 1 with an empty
\* input.
C30_TwoStepConfirm ==
    [][\A d \in DOMAIN dialog :
         ConfirmationText(d) # Undef =>
           /\ dialog'[d].confirms # dialog[d].confirms =>
                  /\ dialog[d].open /\ dialog[d].step = 2
                  /\ dialog[d].inputValue = ConfirmationText(d)
           /\ (HandleConfirm(d) /\ dialog[d].step = 1) =>
                  /\ dialog'[d].step = 2 /\ dialog'[d].open
                  /\ dialog'[d].confirms = dialog[d].confirms
           /\ (HandleCancel(d) /\ dialog[d].step = 2) =>
                  /\ dialog'[d].step = 1 /\ dialog'[d].inputValue = "" /\ dialog'[d].open
                  /\ dialog'[d].confirms = dialog[d].confirms
           /\ (~dialog[d].open /\ dialog'[d].open) =>
                  dialog'[d].step = 1 /\ dialog'[d].inputValue = ""]_vars

\* the delete dialog was confirmed once with the text typed, was opened again,
\* taken to step 2 with the text typed and dismissed, and is open again at
\* step 1
C30_Witness ==
    /\ dialog["delete"].confirms = 1
    /\ dialog["delete"].open
    /\ dialog["delete"].step = 1
    /\ dialog["delete"].inputValue = ""
====
